---------------------------- MODULE Spec2Model ----------------------------
(***************************************************************************)
(* xHelper: a PyQt GUI around adb/fastboot.  The module models the plugin  *)
(* loader, the external command runner, the mass-install worker and the    *)
(* settings file of the application as state machines.                     *)
(*                                                                         *)
(* Sources: src/xHelper/alpha/xHelper alpha 1.0.1.py (alpha; the           *)
(* alpha_on_english copy is line-for-line the same code with translated    *)
(* strings), src/xHelper/xhelper.py and src/xHelper/unknown ver.py.        *)
(***************************************************************************)
EXTENDS Integers, Sequences, FiniteSets, Bags, TLC

(***************************************************************************)
(* Bounds of the model.                                                    *)
(***************************************************************************)
MaxPlugins == 3      \* entries os.listdir returns for the plugins directory
MaxOwnLogs == 1      \* log lines a plugin's register writes itself
MaxApk == 2          \* .apk files in a folder chosen by select_apk_folder
MaxRuns == 1         \* mass installations started in one behaviour
MaxSessions == 2     \* startups of the pre-alpha window in one behaviour
MaxToggles == 2      \* clicks on the dark-theme menu item in one behaviour
MaxDevices == 2      \* devices adb may list
MaxOps == 2          \* functions issuing external commands called in one behaviour
MaxPkgs == 2         \* packages `pm list packages -3` may list
MaxSweeps == 1       \* crash-testing sweeps started in one behaviour
MaxRefresh == 2      \* clicks on "get applications" in one behaviour
MaxStops == 1        \* clicks on "stop testing" in one behaviour
MaxDelay == 1        \* seconds in the delay spin box
MaxScripts == 2      \* clicks on "run script" in one behaviour
MaxLines == 2        \* commands in the script editor
MaxTyped == 260      \* the largest number typed into the keycode field
MaxPercent == 120    \* the largest percentage df may report
MaxDumpLines == 2    \* lines of a `dumpsys battery` output
MaxBattery == 1      \* refreshes of the battery dock in one behaviour
MaxBackups == 1      \* clicks on the start button of Extended Backups
MaxNav == 4          \* navigation events in the folder viewer
MaxDepth == 3        \* folders below "/" the viewer descends

VARIABLES
    \* ---- plugin loader (XHelperMainWindow.load_plugins) ----
    lp_pc,          \* "init" | "loop" | "done" | "raised": position of load_plugins
    lp_files,       \* os.listdir(plugins_dir): the sequence the for loop walks
    lp_i,           \* index of the next entry of lp_files
    exec_calls,     \* entries passed to spec.loader.exec_module, in order
    reg_calls,      \* register calls made: [file |-> entry index, args |-> arguments]
    console,        \* self.console: the bag of appended log lines
    app,            \* "running" | "crashed": the process as a whole
    ui_queue,       \* signals emitted on a worker thread, queued for the UI thread
    \* ---- mass installation (main window, alpha lines 467-607) ----
    apk_files,            \* self.apk_files
    install_in_progress,  \* self.install_in_progress
    stop_installation,    \* self.stop_installation
    progress_bar,         \* self.progress_bar: [visible, maximum, value]
    progress_connected,   \* connections progress_signal -> progress_bar.setValue
    test_progress,        \* self.test_progress value (slot update_test_progress)
    start_install_btn,    \* self.start_install_btn.isEnabled()
    stop_install_btn,     \* self.stop_install_btn.isEnabled()
    runs,                 \* mass installations started so far
    w_pc,                 \* position of the worker in install_apks_thread
    w_total,              \* local total
    w_iter,               \* the list object the for loop iterates
    w_i,                  \* entries of w_iter the loop has taken
    w_success,            \* local success
    w_failed,             \* local failed
    w_entries,            \* local entries
    reports,              \* the dictionaries passed to save_report, in order
    json_files,           \* reports written as JSON files
    html_files,           \* reports written as HTML files
    \* ---- settings (pre-alpha window, unknown ver.py lines 121-141, 225-238) ----
    st_phase,       \* "off" | "running" | "crashed"
    settings,       \* self.settings: key -> Python value
    config_file,    \* the file at CONFIG_PATH: [kind, members]
    st_sessions,    \* startups so far
    st_toggles,     \* toggle_dark_theme calls so far
    st_loaded,      \* what load_settings read at the last startup, "none"
                    \* once a setting or the file has changed since
    saved_settings, \* self.settings as save_settings last wrote it completely
    \* ---- external commands (alpha lines 213-287, 960-995, 1050-1066, 1150-1234) ----
    adb_checked,       \* __init__ has called check_adb (line 137)
    device_list,       \* the serials in self.device_list
    selected,          \* self.device_list.selectedItems()
    run_all_checkbox,  \* self.run_all_checkbox.isChecked()
    adb_ops,           \* calls of command-issuing functions so far
    last_call,         \* the most recent such call: function and arguments
    launched,          \* the processes it launched, in order
    escaped,           \* the exception that last left the function issuing the command
    blocked,           \* threads waiting in a subprocess.run that never returns
    monitor_labels,    \* what the monitoring tab shows
    test_result,       \* result["crashed"] of the last test_application
    \* ---- crash-testing sweep (alpha lines 848-955, 1021-1048, 1557-1588) ----
    packages,          \* self.packages
    app_tree,          \* the rows of self.app_tree: [pkg, status]
    crashed_apps,      \* the keys of self.crashed_apps, in insertion order
    testing,           \* self.testing
    start_test_btn,    \* start_test_btn.isEnabled()
    stop_test_btn,     \* stop_test_btn.isEnabled()
    delete_all_btn,    \* delete_all_btn.isEnabled() (delete_selected_btn alike)
    tw,                \* the sweep worker threads created so far, oldest first
    refreshes,         \* clicks on "get applications" so far
    stop_clicks,             \* clicks on "stop testing" so far
    test_reports,      \* what generate_test_report handed to save_report
    pkg_refresh,       \* the package names the last completed refresh returned
    del_call,          \* the last delete_all_problematic_apps: its items and
                       \* the items it tried to uninstall
    \* ---- what worker threads did ----
    worker_widget_calls, \* widget methods called on a worker thread
    worker_writes,       \* shared attributes written on a worker thread
    w_since_stop,        \* adb install calls launched since the stop flag was set
    \* ---- script editor (alpha lines 1372-1405) ----
    sw,             \* the WorkerThreads run_script created, in order of creation
    script_clicks,  \* clicks on "run script" so far
    \* ---- plugin hardware_key_emulator, custom keycode group ----
    edit_custom,    \* edit_custom.text(), a sequence of characters
    btn_custom,     \* btn_custom.isEnabled()
    \* ---- plugin rom_usage_progress, RomUsageDialog ----
    rom_info,       \* the percentage info_label shows, -1 when it shows none
    rom_progress,   \* self.progress.value()
    rom_style,      \* the background-color of the chunk, << >> without a style sheet
    \* ---- battery level: the monitoring tab and plugin battery_monitor_extended ----
    bat_out,        \* the `dumpsys battery` output update_monitor read last
    batt_out,       \* the `dumpsys battery` output the battery dock parsed last
    battery_label,  \* the level in monitor_labels["Battery"]
    batt_widgets,   \* what the widgets of the battery dock show
    batt_updates,   \* refreshes of the battery dock so far
    \* ---- plugin extended_backups ----
    btn_start,      \* btn_start.isEnabled()
    bk_progress,    \* the progress bar of the tab: [visible, value]
    bkw,            \* the BackupWorkers created, in order of creation
    bk_clicks,      \* clicks on btn_start so far
    \* ---- plugin viewer ----
    current_path,   \* the folder shown, as the sequence of its components
    path_history,   \* the folders left, oldest first
    edit_path,      \* edit_path.text(), as a path
    btn_back,       \* btn_back.isEnabled()
    list_files,     \* the items of list_files, top to bottom
    status_bar,     \* which text status_bar shows
    nav_steps       \* navigation events so far

pluginVars == <<lp_pc, lp_files, lp_i, exec_calls, reg_calls>>

installVars ==
    <<apk_files, install_in_progress, stop_installation, progress_bar,
      progress_connected, test_progress, start_install_btn, stop_install_btn,
      runs, w_pc, w_total, w_iter, w_i, w_success, w_failed,
      w_entries, reports, json_files, html_files>>

settingsVars ==
    <<st_phase, settings, config_file, st_sessions, st_toggles, st_loaded,
      saved_settings>>

adbVars ==
    <<adb_checked, device_list, selected, run_all_checkbox, adb_ops, last_call,
      launched, escaped, blocked, monitor_labels, test_result>>

sweepVars ==
    <<packages, app_tree, crashed_apps, testing, start_test_btn, stop_test_btn,
      delete_all_btn, tw, refreshes, stop_clicks, test_reports, pkg_refresh,
      del_call>>

threadVars == <<worker_widget_calls, worker_writes, w_since_stop>>

scriptVars == <<sw, script_clicks>>

keyVars == <<edit_custom, btn_custom>>

romVars == <<rom_info, rom_progress, rom_style>>

toolVars == <<scriptVars, keyVars, romVars>>

batteryVars == <<bat_out, batt_out, battery_label, batt_widgets, batt_updates>>

viewerVars ==
    <<current_path, path_history, edit_path, btn_back, list_files, status_bar,
      nav_steps>>

extVars == <<batteryVars, viewerVars>>

backupVars == <<btn_start, bk_progress, bkw, bk_clicks>>

vars ==
    <<pluginVars, console, app, ui_queue, installVars, settingsVars, adbVars,
      sweepVars, threadVars, toolVars, extVars, backupVars>>

(***************************************************************************)
(* Python exceptions.  An except clause catches an exception when the      *)
(* raised class is the clause's class or a subclass of it.                 *)
(***************************************************************************)
ExcClasses ==
    {"BaseException", "Exception", "OSError", "FileNotFoundError",
     "PermissionError", "SubprocessError", "TimeoutExpired",
     "CalledProcessError", "ImportError", "AttributeError", "TypeError",
     "ValueError", "JSONDecodeError"}

ExcParent ==
    [c \in ExcClasses |->
        CASE c = "Exception"          -> "BaseException"
          [] c = "OSError"            -> "Exception"
          [] c = "FileNotFoundError"  -> "OSError"
          [] c = "PermissionError"    -> "OSError"
          [] c = "SubprocessError"    -> "Exception"
          [] c = "TimeoutExpired"     -> "SubprocessError"
          [] c = "CalledProcessError" -> "SubprocessError"
          [] c = "ImportError"        -> "Exception"
          [] c = "AttributeError"     -> "Exception"
          [] c = "TypeError"          -> "Exception"
          [] c = "ValueError"         -> "Exception"
          [] c = "JSONDecodeError"    -> "ValueError"
          [] OTHER                    -> "BaseException"]

RECURSIVE IsSubclass(_, _)
IsSubclass(c, base) ==
    IF c = base THEN TRUE
    ELSE IF c = "BaseException" THEN FALSE
    ELSE IsSubclass(ExcParent[c], base)

\* `except A, B, ...:` with the classes in handler catches exc
Catches(handler, exc) == \E h \in handler : IsSubclass(exc, h)

(***************************************************************************)
(* Plugin loader, alpha lines 189-208.                                     *)
(*                                                                         *)
(* A directory entry is described by what loading it does: whether its     *)
(* name ends in ".py", what exec_module does ("ok" or the exception class  *)
(* it raises), whether the module has a register attribute, what register  *)
(* does, and how many log lines register writes itself before it returns   *)
(* (the repository's plugins log as their last statement, so a register    *)
(* that raises has written nothing).                                       *)
(***************************************************************************)
PluginKinds ==
    {[py |-> FALSE, imp |-> "ok", hasreg |-> FALSE, reg |-> "ok", logs |-> 0]}
    \cup {[py |-> TRUE, imp |-> e, hasreg |-> FALSE, reg |-> "ok", logs |-> 0] :
            e \in {"ImportError", "ok"}}
    \cup {[py |-> TRUE, imp |-> "ok", hasreg |-> TRUE, reg |-> "ok", logs |-> n] :
            n \in 0..MaxOwnLogs}
    \cup {[py |-> TRUE, imp |-> "ok", hasreg |-> TRUE, reg |-> "AttributeError",
           logs |-> 0]}

Listings == UNION {[1..n -> PluginKinds] : n \in 0..MaxPlugins}

MainWindow == "self"

LogLine(kind, file) == [kind |-> kind, file |-> file]

\* log_message, alpha lines 305-308: one line appended to the console (the
\* console is kept as the bag of its lines: their order is not modelled)
log_message(log, kind, file) == log (+) SetToBag({LogLine(kind, file)})

\* the lines register writes itself through main_window.log_message
RECURSIVE OwnLogs(_, _, _)
OwnLogs(log, file, n) ==
    IF n = 0 THEN log
    ELSE OwnLogs(log_message(log, "plugin", file), file, n - 1)

\* a handler that names only the import failure
LoadHandler_ImportOnly == {"ImportError"}

\* the handler of load_plugins' try block, line 207
LoadHandler == {"Exception"}

\* a call that also passes the file name
RegisterArgs_WithName(i) == <<MainWindow, i>>

\* the argument list of the call at line 205: mod.register(self)
RegisterArgs(i) == <<MainWindow>>

\* an except block that swallows the exception without a log line
FailureLog_Silent(log, i) == log

\* the except block, lines 207-208: one line naming the file
FailureLog(log, i) == log_message(log, "error", i)

\* lines 190-193 and the evaluation of os.listdir at line 195
LoadPluginsBegin ==
    /\ lp_pc = "init"
    /\ \/ /\ lp_pc' = "done"                      \* not os.path.isdir
          /\ lp_files' = << >>
          /\ console' = log_message(console, "nodir", 0)
       \/ \E l \in Listings :
             /\ lp_files' = l
             /\ lp_pc' = "loop"
             /\ console' = console
    /\ UNCHANGED <<backupVars, extVars, toolVars, lp_i, exec_calls, reg_calls, app, ui_queue, installVars,
                   settingsVars, adbVars, sweepVars, threadVars>>

\* the outcome of lines 201-208 for entry i: <<pc, exec_calls, reg_calls, console>>
TryPlugin(i, f) ==
    LET ex  == Append(exec_calls, i)
        rg  == Append(reg_calls, [file |-> i, args |-> RegisterArgs(i)])
        exc == IF f.imp # "ok" THEN f.imp
               ELSE IF f.hasreg /\ f.reg # "ok" THEN f.reg
               ELSE "none"
    IN  IF f.imp # "ok" THEN
            IF Catches(LoadHandler, exc)
            THEN <<"loop", ex, reg_calls, FailureLog(console, i)>>
            ELSE <<"raised", ex, reg_calls, console>>
        ELSE IF ~f.hasreg THEN
            <<"loop", ex, reg_calls, console>>
        ELSE IF f.reg = "ok" THEN
            <<"loop", ex, rg,
              log_message(OwnLogs(console, i, f.logs), "loaded", i)>>
        ELSE IF Catches(LoadHandler, exc)
            THEN <<"loop", ex, rg, FailureLog(console, i)>>
            ELSE <<"raised", ex, rg, console>>

\* one iteration of the for loop, lines 195-208
LoadPluginsStep ==
    /\ lp_pc = "loop"
    /\ lp_i <= Len(lp_files)
    /\ LET f == lp_files[lp_i]
           r == IF f.py THEN TryPlugin(lp_i, f)
                ELSE <<"loop", exec_calls, reg_calls, console>>   \* continue
       IN  /\ lp_pc' = r[1]
           /\ exec_calls' = r[2]
           /\ reg_calls' = r[3]
           /\ console' = r[4]
    /\ lp_i' = lp_i + 1
    /\ UNCHANGED <<backupVars, extVars, toolVars, lp_files, app, ui_queue, installVars, settingsVars,
                   adbVars, sweepVars, threadVars>>

\* the for loop is exhausted: load_plugins returns
LoadPluginsEnd ==
    /\ lp_pc = "loop"
    /\ lp_i > Len(lp_files)
    /\ lp_pc' = "done"
    /\ UNCHANGED <<backupVars, extVars, toolVars, lp_files, lp_i, exec_calls, reg_calls, console, app,
                   ui_queue, installVars, settingsVars,
                   adbVars, sweepVars, threadVars>>

InitPlugins ==
    /\ lp_pc = "init"
    /\ lp_files = << >>
    /\ lp_i = 1
    /\ exec_calls = << >>
    /\ reg_calls = << >>

(***************************************************************************)
(* Signals.  A signal emitted on a worker thread for a slot of an object   *)
(* of the UI thread is queued and delivered by the UI event loop, in the   *)
(* order of emission.                                                      *)
(***************************************************************************)
Emit(q, ev) == Append(q, ev)

LogEvent(kind, file) == [sig |-> "log", kind |-> kind, file |-> file]

\* progress_signal.emit(v): one queued call per connected slot;
\* update_test_progress is always connected (line 114), progress_bar.setValue
\* while a mass installation runs (lines 493, 513)
ProgressEvent(v) == [sig |-> "progress", val |-> v, bar |-> progress_connected > 0]

FinishedEvent == [sig |-> "finished", kind |-> "install", file |-> 0]

(***************************************************************************)
(* Mass installation, alpha lines 467-607.                                 *)
(***************************************************************************)
Folders == {"A", "B", "empty"}

\* the number of .apk files os.listdir finds in a folder
FolderSize(folder) ==
    CASE folder = "A" -> MaxApk
      [] folder = "B" -> MaxApk - 1
      [] OTHER -> 0

\* the .apk files of a folder: os.path.join(folder, f), lines 471-475
FolderFiles(folder) == [k \in 1..FolderSize(folder) |-> <<folder, k>>]

\* select_apk_folder, lines 467-476 (a cancelled dialog changes nothing)
SelectApkFolder ==
    /\ app = "running"
    /\ \E folder \in Folders : apk_files' = FolderFiles(folder)
    /\ UNCHANGED <<backupVars, extVars, toolVars, sweepVars, threadVars, adbVars, settingsVars, pluginVars, console, app, ui_queue, install_in_progress,
                   stop_installation, progress_bar, progress_connected,
                   test_progress, start_install_btn, stop_install_btn, runs,
                   w_pc, w_total, w_iter, w_i, w_success,
                   w_failed, w_entries, reports, json_files, html_files>>

\* start_mass_installation, lines 479-484: the start is refused without
\* APK files and while a mass installation is in progress
InstallRefused == apk_files = << >> \/ install_in_progress

\* start_mass_installation, lines 478-501, the clicked slot of
\* start_install_btn (line 452); the two early returns only open a dialog
StartMassInstallation ==
    /\ app = "running"
    /\ start_install_btn
    /\ runs < MaxRuns
    /\ ~InstallRefused
    /\ install_in_progress' = TRUE
    /\ stop_installation' = FALSE
    /\ progress_bar' = [visible |-> TRUE, maximum |-> Len(apk_files), value |-> 0]
    /\ progress_connected' = progress_connected + 1
    /\ start_install_btn' = FALSE
    /\ stop_install_btn' = TRUE
    /\ w_pc' = "started"
    /\ runs' = runs + 1
    /\ w_since_stop' = 0
    /\ UNCHANGED <<backupVars, extVars, toolVars, sweepVars, worker_widget_calls, worker_writes, adbVars, settingsVars, pluginVars, console, app, ui_queue, apk_files, test_progress,
                   w_total, w_iter, w_i, w_success, w_failed, w_entries,
                   reports, json_files, html_files>>

\* stop_mass_installation, lines 503-507, the clicked slot of
\* stop_install_btn (line 455): a disabled button is not clicked
StopMassInstallation ==
    /\ app = "running"
    /\ stop_install_btn
    /\ install_in_progress
    /\ stop_installation' = TRUE
    /\ console' = log_message(console, "stop_clicked", 0)
    /\ stop_install_btn' = FALSE
    /\ UNCHANGED <<backupVars, extVars, toolVars, sweepVars, threadVars, adbVars, settingsVars, pluginVars, app, ui_queue, apk_files, install_in_progress,
                   progress_bar, progress_connected, test_progress,
                   start_install_btn, runs, w_pc, w_total,
                   w_iter, w_i, w_success, w_failed, w_entries, reports,
                   json_files, html_files>>

\* mass_installation_finished, lines 509-517: disconnect raises TypeError when
\* nothing is connected, which the handler passes over
mass_installation_finished ==
    /\ install_in_progress' = FALSE
    /\ progress_bar' = [progress_bar EXCEPT !.visible = FALSE]
    /\ progress_connected' = IF progress_connected > 0
                             THEN progress_connected - 1 ELSE 0
    /\ start_install_btn' = TRUE
    /\ stop_install_btn' = FALSE
    /\ UNCHANGED <<console, test_progress>>

\* the finished_signal of a sweep worker (line 897)
FinishedTestEvent == [sig |-> "test_finished", kind |-> "sweep", file |-> 0]

\* the report dictionary of generate_test_report, lines 1559-1586 (the
\* timestamp is left out)
TestReport(pkgs, crashed) ==
    LET total == Len(pkgs)
        failed == Len(crashed)
    IN  [type |-> "app_testing", total |-> total, success |-> total - failed,
         failed |-> failed,
         entries |-> [i \in DOMAIN pkgs |->
                        [package |-> pkgs[i],
                         status |-> IF \E j \in DOMAIN crashed : crashed[j] = pkgs[i]
                                    THEN "crashed" ELSE "ok"]]]

\* app_testing_finished, line 910: the report is generated when the sweep
\* found a crashed application
ReportWanted(crashed) == crashed # << >>

\* app_testing_finished, lines 904-916, with generate_test_report (lines
\* 1557-1588) and save_report (lines 1512-1555)
app_testing_finished ==
    /\ testing' = FALSE
    /\ start_test_btn' = TRUE
    /\ stop_test_btn' = FALSE
    /\ delete_all_btn' = (crashed_apps # << >>)
    /\ IF ReportWanted(crashed_apps)
       THEN \E json_ok, html_ok \in BOOLEAN :
               /\ test_reports' = Append(test_reports,
                      [report |-> TestReport(packages, crashed_apps),
                       json |-> json_ok, html |-> html_ok])
               /\ console' = log_message(
                      log_message(console,
                         IF json_ok THEN "json_saved" ELSE "json_failed", 0),
                      IF html_ok THEN "html_saved" ELSE "html_failed", 0)
       ELSE UNCHANGED <<test_reports, console>>
    /\ UNCHANGED <<packages, app_tree, crashed_apps, tw, refreshes, stop_clicks,
                   pkg_refresh, del_call>>

\* BackupWorker.progress_signal, connected to progress.setValue
\* (extended_backups line 349)
BackupProgressEvent(v) == [sig |-> "backup_progress", val |-> v]

\* BackupWorker.finished_signal of worker w, connected to
\* lambda: backup_finished(worker) (extended_backups line 350)
BackupFinishedEvent(w) == [sig |-> "backup_finished", worker |-> w]

\* backup_finished, extended_backups lines 354-366: the button and the bar
\* are reset and the dialog is shown; quit() and wait() return once run has
\* returned
backup_finished(w) ==
    /\ btn_start' = TRUE
    /\ bk_progress' = [bk_progress EXCEPT !.visible = FALSE]
    /\ bkw' = [bkw EXCEPT ![w].handled = @ + 1]
    /\ UNCHANGED bk_clicks

\* the UI event loop delivers the oldest queued signal to its slots:
\* log_message (lines 113, 499), update_test_progress (line 114, 957-958) and
\* progress_bar.setValue (line 493), mass_installation_finished (line 500),
\* app_testing_finished (line 897)
DeliverSignal ==
    /\ app = "running"
    /\ \A b \in blocked : b.thread # "ui"
    /\ ui_queue # << >>
    /\ LET ev == Head(ui_queue)
       IN  /\ ui_queue' = Tail(ui_queue)
           /\ \/ /\ ev.sig = "log"
                 /\ console' = log_message(console, ev.kind, ev.file)
                 /\ UNCHANGED <<install_in_progress, progress_bar,
                                progress_connected, test_progress,
                                start_install_btn, stop_install_btn, sweepVars,
                                backupVars>>
              \/ /\ ev.sig = "progress"
                 /\ test_progress' = ev.val
                 /\ progress_bar' = IF ev.bar
                                    THEN [progress_bar EXCEPT !.value = ev.val]
                                    ELSE progress_bar
                 /\ UNCHANGED <<console, install_in_progress,
                                progress_connected, start_install_btn,
                                stop_install_btn, sweepVars, backupVars>>
              \/ /\ ev.sig = "finished"
                 /\ mass_installation_finished
                 /\ UNCHANGED <<sweepVars, backupVars>>
              \/ /\ ev.sig = "test_finished"
                 /\ app_testing_finished
                 /\ UNCHANGED <<install_in_progress, progress_bar,
                                progress_connected, test_progress,
                                start_install_btn, stop_install_btn, backupVars>>
              \/ /\ ev.sig = "backup_progress"
                 /\ bk_progress' = [bk_progress EXCEPT !.value = ev.val]
                 /\ UNCHANGED <<console, install_in_progress, progress_bar,
                                progress_connected, test_progress,
                                start_install_btn, stop_install_btn, sweepVars,
                                btn_start, bkw, bk_clicks>>
              \/ /\ ev.sig = "backup_finished"
                 /\ backup_finished(ev.worker)
                 /\ UNCHANGED <<console, install_in_progress, progress_bar,
                                progress_connected, test_progress,
                                start_install_btn, stop_install_btn, sweepVars>>
    /\ UNCHANGED <<extVars, toolVars, threadVars, adbVars, settingsVars, pluginVars, app, apk_files, stop_installation, runs,
                   w_pc, w_total, w_iter, w_i, w_success,
                   w_failed, w_entries, reports, json_files, html_files>>

\* WorkerThread.run, lines 52-58, when self.function raised exc: the except
\* clause logs through the worker's log_signal, finally emits finished_signal
WorkerRaised(q, exc) ==
    IF Catches({"Exception"}, exc)
    THEN Emit(Emit(q, LogEvent("thread_error", 0)), FinishedEvent)
    ELSE Emit(q, FinishedEvent)

\* WorkerThread.run when self.function returned
WorkerReturned(q) == Emit(q, FinishedEvent)

\* install_apks_thread, lines 520-530: the locals, the first log line and the
\* log file; open() may raise OSError, which leaves the function
InstallBegin ==
    /\ app = "running"
    /\ w_pc = "started"
    /\ w_success' = 0
    /\ w_failed' = 0
    /\ w_entries' = << >>
    /\ w_i' = 0
    /\ w_iter' = << >>
    /\ \/ /\ w_pc' = "for"
          /\ w_total' = Len(apk_files)
          /\ ui_queue' = Emit(ui_queue, LogEvent("install_begin", 0))
       \/ /\ w_pc' = "idle"
          /\ w_total' = 0
          /\ ui_queue' = WorkerRaised(
                Emit(ui_queue, LogEvent("install_begin", 0)), "OSError")
    /\ UNCHANGED <<backupVars, extVars, toolVars, sweepVars, threadVars, adbVars, settingsVars, pluginVars, console, app, apk_files, install_in_progress,
                   stop_installation, progress_bar, progress_connected,
                   test_progress, start_install_btn, stop_install_btn, runs,
                   reports, json_files, html_files>>

\* line 532: the for statement evaluates self.apk_files once
InstallFor ==
    /\ app = "running"
    /\ w_pc = "for"
    /\ w_iter' = apk_files
    /\ w_pc' = "check"
    /\ UNCHANGED <<backupVars, extVars, toolVars, sweepVars, threadVars, adbVars, settingsVars, pluginVars, console, app, ui_queue, apk_files,
                   install_in_progress, stop_installation, progress_bar,
                   progress_connected, test_progress, start_install_btn,
                   stop_install_btn, runs, w_total, w_i,
                   w_success, w_failed, w_entries, reports, json_files,
                   html_files>>

\* lines 532-537: the next file, or the end of the loop, or the break on the
\* stop flag
InstallCheckStop ==
    /\ app = "running"
    /\ w_pc = "check"
    /\ IF w_i >= Len(w_iter) THEN
           /\ w_pc' = "summary"
           /\ UNCHANGED ui_queue
       ELSE IF stop_installation THEN
           /\ w_pc' = "summary"
           /\ ui_queue' = Emit(ui_queue, LogEvent("install_stopped", 0))
       ELSE
           /\ w_pc' = "run"
           /\ ui_queue' = Emit(ui_queue, LogEvent("installing", w_i + 1))
    /\ UNCHANGED <<backupVars, extVars, toolVars, sweepVars, threadVars, adbVars, settingsVars, pluginVars, console, app, apk_files, install_in_progress,
                   stop_installation, progress_bar, progress_connected,
                   test_progress, start_install_btn, stop_install_btn, runs,
                   w_total, w_iter, w_i, w_success, w_failed,
                   w_entries, reports, json_files, html_files>>

\* what `adb install -r` can do under timeout=360: exit 0, exit non-zero, run
\* into the timeout, or fail to start
InstallOutcomes == {"ok", "nonzero", "TimeoutExpired", "OSError"}

\* the status string of lines 548, 555, 562, 569
StatusOf(out) ==
    CASE out = "ok"      -> "success"
      [] out = "nonzero" -> "failed"
      [] Catches({"TimeoutExpired"}, out) -> "timeout"
      [] OTHER -> "exception"

\* a counter that is not advanced on a timeout
FailedAfter_TimeoutUncounted(failed, out) ==
    IF out \in {"ok", "TimeoutExpired"} THEN failed ELSE failed + 1

\* the counter failed after one file, lines 554, 561, 568
FailedAfter(failed, out) == IF out = "ok" THEN failed ELSE failed + 1

\* the counter success after one file, line 547
SuccessAfter(success, out) == IF out = "ok" THEN success + 1 ELSE success

\* lines 539-581: one adb install, the counters, the entry, the progress signal
InstallRun ==
    /\ app = "running"
    /\ w_pc = "run"
    /\ \E out \in InstallOutcomes :
          /\ w_success' = SuccessAfter(w_success, out)
          /\ w_failed' = FailedAfter(w_failed, out)
          /\ w_entries' = Append(w_entries,
                [package |-> w_iter[w_i + 1], status |-> StatusOf(out)])
          /\ ui_queue' = Emit(Emit(ui_queue, LogEvent(StatusOf(out), w_i + 1)),
                              ProgressEvent(w_i + 1))
    /\ w_i' = w_i + 1
    /\ w_since_stop' = IF stop_installation THEN w_since_stop + 1 ELSE w_since_stop
    /\ w_pc' = "check"
    /\ UNCHANGED <<backupVars, extVars, toolVars, sweepVars, worker_widget_calls, worker_writes, adbVars, settingsVars, pluginVars, console, app, apk_files, install_in_progress,
                   stop_installation, progress_bar, progress_connected,
                   test_progress, start_install_btn, stop_install_btn, runs,
                   w_total, w_iter, reports, json_files,
                   html_files>>

\* a report whose total is the number of entries
MassInstallReport_CountsEntries(total, success, failed, entries) ==
    [type |-> "mass_install", total |-> Len(entries), success |-> success,
     failed |-> failed, entries |-> entries]

\* the report dictionary, lines 589-596 (the timestamp is left out)
MassInstallReport(total, success, failed, entries) ==
    [type |-> "mass_install", total |-> total, success |-> success,
     failed |-> failed, entries |-> entries]

\* lines 583-599: the summary, the report and save_report (lines 1512-1555),
\* which writes the JSON and the HTML file, each in its own try block, and
\* logs the result by calling log_message on the worker thread
InstallSummary ==
    /\ app = "running"
    /\ w_pc = "summary"
    /\ LET report == MassInstallReport(w_total, w_success, w_failed, w_entries)
       IN  /\ reports' = Append(reports, report)
           /\ \E json_ok, html_ok \in BOOLEAN :
                 /\ json_files' = IF json_ok THEN Append(json_files, report)
                                  ELSE json_files
                 /\ html_files' = IF html_ok THEN Append(html_files, report)
                                  ELSE html_files
                 /\ console' = log_message(
                       log_message(console,
                          IF json_ok THEN "json_saved" ELSE "json_failed", 0),
                       IF html_ok THEN "html_saved" ELSE "html_failed", 0)
    /\ ui_queue' = Emit(ui_queue, LogEvent("install_complete", 0))
    /\ w_pc' = "dialog"
    /\ worker_widget_calls' = worker_widget_calls \cup {"console.append"}
    /\ UNCHANGED <<backupVars, extVars, toolVars, sweepVars, worker_writes, w_since_stop, adbVars, settingsVars, pluginVars, app, apk_files, install_in_progress,
                   stop_installation, progress_bar, progress_connected,
                   test_progress, start_install_btn, stop_install_btn, runs,
                   w_total, w_iter, w_i, w_success, w_failed,
                   w_entries>>

\* lines 601-607: a QMessageBox opened on the worker thread.  Qt widgets are
\* not thread-safe: the call either shows the dialog and returns, or takes
\* the process down.
InstallDialog ==
    /\ w_pc = "dialog"
    /\ app = "running"
    /\ worker_widget_calls' = worker_widget_calls \cup {"QMessageBox"}
    /\ \/ /\ w_pc' = "idle"                  \* the function returns: its
          /\ w_total' = 0                     \* locals are gone
          /\ w_iter' = << >>
          /\ w_i' = 0
          /\ w_success' = 0
          /\ w_failed' = 0
          /\ w_entries' = << >>
          /\ ui_queue' = WorkerReturned(ui_queue)
          /\ UNCHANGED app
       \/ /\ app' = "crashed"
          /\ UNCHANGED <<w_pc, ui_queue, w_total, w_iter, w_i, w_success,
                         w_failed, w_entries>>
    /\ UNCHANGED <<backupVars, extVars, toolVars, sweepVars, worker_writes, w_since_stop, adbVars, settingsVars, pluginVars, console, apk_files, install_in_progress,
                   stop_installation, progress_bar, progress_connected,
                   test_progress, start_install_btn, stop_install_btn, runs,
                   reports, json_files, html_files>>

InitInstall ==
    /\ apk_files = << >>
    /\ install_in_progress = FALSE
    /\ stop_installation = FALSE
    /\ progress_bar = [visible |-> FALSE, maximum |-> 100, value |-> 0]
    /\ progress_connected = 0
    /\ test_progress = 0
    /\ start_install_btn = TRUE
    /\ stop_install_btn = FALSE
    /\ runs = 0
    /\ w_pc = "idle"
    /\ w_total = 0
    /\ w_iter = << >>
    /\ w_i = 0
    /\ w_success = 0
    /\ w_failed = 0
    /\ w_entries = << >>
    /\ reports = << >>
    /\ json_files = << >>
    /\ html_files = << >>

NextInstall ==
    \/ SelectApkFolder
    \/ StartMassInstallation
    \/ StopMassInstallation
    \/ DeliverSignal
    \/ InstallBegin
    \/ InstallFor
    \/ InstallCheckStop
    \/ InstallRun
    \/ InstallSummary
    \/ InstallDialog


(***************************************************************************)
(* Settings, unknown ver.py lines 121-141 and 225-238.                     *)
(*                                                                         *)
(* A Python value is a str, a bool or a dict of such values; a JSON value  *)
(* is a string, true, false or an object.  json.dump and json.load map one *)
(* onto the other.                                                         *)
(***************************************************************************)
NoMap == << >>

PyStr(x) == [t |-> "str", s |-> x, d |-> NoMap]
PyBool(b) == [t |-> "bool", s |-> IF b THEN "True" ELSE "False", d |-> NoMap]
PyDict(f) == [t |-> "dict", s |-> "", d |-> f]

JString(x) == [j |-> "string", s |-> x, m |-> NoMap]
JBool(b) == [j |-> IF b THEN "true" ELSE "false", s |-> "", m |-> NoMap]
JObject(f) == [j |-> "object", s |-> "", m |-> f]

\* a bool written through str(): "True" / "False" as a JSON string
JsonOfScalar_BoolAsStr(v) == JString(v.s)

\* json.dump of a str or a bool
JsonOfScalar(v) == IF v.t = "bool" THEN JBool(v.s = "True") ELSE JString(v.s)

\* json.dump of a value (line 236): a dict becomes an object, member by member
JsonOf(v) ==
    IF v.t = "dict" THEN JObject([k \in DOMAIN v.d |-> JsonOfScalar(v.d[k])])
    ELSE JsonOfScalar(v)

\* json.load of a string, true or false
PyOfScalar(x) == IF x.j = "string" THEN PyStr(x.s) ELSE PyBool(x.j = "true")

\* json.load of a value (line 229)
PyOf(x) ==
    IF x.j = "object" THEN PyDict([k \in DOMAIN x.m |-> PyOfScalar(x.m[k])])
    ELSE PyOfScalar(x)

\* json.dump(self.settings, f): the members of the top-level object
json_dump(d) == [k \in DOMAIN d |-> JsonOf(d[k])]

\* json.load(f) of a file holding an object: a dict
json_load(members) == [k \in DOMAIN members |-> PyOf(members[k])]

\* an update that keeps the value of a key that is already present
DictUpdate_KeepExisting(d, o) ==
    [k \in DOMAIN d \cup DOMAIN o |-> IF k \in DOMAIN d THEN d[k] ELSE o[k]]

\* dict.update (line 229): the keys of o are set in d, the others stay
DictUpdate(d, o) ==
    [k \in DOMAIN d \cup DOMAIN o |-> IF k \in DOMAIN o THEN o[k] ELSE d[k]]

\* the literal of lines 127-140
DefaultHotkeys ==
    [k \in {"RefreshDevices", "OpenLogcat", "StartScrcpy", "TakeScreenshot"} |->
        CASE k = "RefreshDevices" -> PyStr("F5")
          [] k = "OpenLogcat"     -> PyStr("Ctrl+L")
          [] k = "StartScrcpy"    -> PyStr("Ctrl+S")
          [] OTHER                -> PyStr("Ctrl+Shift+S")]

DefaultSettings ==
    [k \in {"adb_path", "theme_dark", "auto_update", "log_to_file",
            "log_file_path", "language", "hotkeys"} |->
        CASE k = "adb_path"      -> PyStr("adb")
          [] k = "theme_dark"    -> PyBool(FALSE)
          [] k = "auto_update"   -> PyBool(FALSE)
          [] k = "log_to_file"   -> PyBool(FALSE)
          [] k = "log_file_path" -> PyStr("~/xHelper_log.txt")
          [] k = "language"      -> PyStr("ru")
          [] OTHER               -> PyDict(DefaultHotkeys)]

\* the file at CONFIG_PATH (line 47)
NoFile == [kind |-> "absent", members |-> NoMap]
CorruptFile == [kind |-> "corrupt", members |-> NoMap]     \* not JSON
StringFile == [kind |-> "string", members |-> NoMap]       \* JSON, no object
ObjectFile(members) == [kind |-> "object", members |-> members]

\* what the user, an editor or another version of the program may have left in
\* the file: any choice of the members below
ExternalMembers ==
    {"adb_path", "theme_dark", "hotkeys", "window_state"}

ExternalValues(k) ==
    CASE k = "adb_path"   -> {JString("adb"), JString("/opt/adb")}
      [] k = "theme_dark" -> {JBool(TRUE), JBool(FALSE)}
      [] k = "hotkeys"    -> {JObject([h \in {"RefreshDevices"} |-> JString("F6")])}
      [] OTHER            -> {JString("maximized")}

ExternalFiles ==
    {NoFile, CorruptFile, StringFile}
    \cup {ObjectFile(f) : f \in UNION {
            {g \in [K -> UNION {ExternalValues(k) : k \in K}] :
                \A k \in K : g[k] \in ExternalValues(k)} :
            K \in SUBSET ExternalMembers}}

\* the file is written from outside the program
ExternalWrite ==
    /\ \E f \in ExternalFiles : config_file' = f
    /\ saved_settings' = NoMap
    /\ st_loaded' = "none"
    /\ UNCHANGED <<backupVars, extVars, toolVars, sweepVars, threadVars, adbVars, pluginVars, console, app, ui_queue, installVars, st_phase,
                   settings, st_sessions, st_toggles>>

\* load_settings, lines 225-231, applied to the dictionary d: the dictionary
\* afterwards and the exception class that reached the except clause ("none"
\* when the try block completed or was not entered)
load_settings(d, file, readable) ==
    IF file.kind = "absent" THEN <<d, "none">>
    ELSE IF ~readable THEN <<d, "PermissionError">>
    ELSE IF file.kind = "corrupt" THEN <<d, "JSONDecodeError">>
    ELSE IF file.kind = "string" THEN <<d, "ValueError">>
    ELSE <<DictUpdate(d, json_load(file.members)), "none">>

\* __init__, lines 121-141 (self.settings and load_settings) and the rest of
\* the constructor.  The except clause of load_settings calls log_message,
\* which needs self.console; the console is created at line 153, after
\* load_settings has run, so the call raises AttributeError out of __init__.
Startup ==
    /\ st_phase = "off"
    /\ st_sessions < MaxSessions
    /\ st_sessions' = st_sessions + 1
    /\ \E readable \in BOOLEAN :
          LET r == load_settings(DefaultSettings, config_file, readable)
          IN  /\ settings' = r[1]
              /\ IF r[2] = "none"
                 THEN /\ st_phase' = "running"
                      /\ st_loaded' = IF config_file.kind = "absent" THEN "nofile"
                                      ELSE IF saved_settings # NoMap THEN "saved"
                                      ELSE "external"
                 ELSE /\ st_phase' = "crashed"
                      /\ st_loaded' = "none"
    /\ UNCHANGED <<backupVars, extVars, toolVars, sweepVars, threadVars, adbVars, pluginVars, console, app, ui_queue, installVars, config_file,
                   st_toggles, saved_settings>>

\* save_settings, lines 233-238, of the dictionary d: the file afterwards.
\* open() may fail and leave the file as it was; a write error after open()
\* leaves a truncated file.
save_settings(d, file, outcome) ==
    CASE outcome = "ok"        -> ObjectFile(json_dump(d))
      [] outcome = "open_fail" -> file
      [] OTHER                 -> CorruptFile

\* toggle_dark_theme, lines 267-270
ToggleDarkTheme ==
    /\ st_phase = "running"
    /\ st_toggles < MaxToggles
    /\ st_toggles' = st_toggles + 1
    /\ \E checked \in BOOLEAN, outcome \in {"ok", "open_fail", "write_fail"} :
          LET d == [settings EXCEPT !["theme_dark"] = PyBool(checked)]
          IN  /\ settings' = d
              /\ config_file' = save_settings(d, config_file, outcome)
              /\ saved_settings' = CASE outcome = "ok" -> d
                                     [] outcome = "open_fail" -> saved_settings
                                     [] OTHER -> NoMap
              /\ console' = IF outcome = "ok" THEN console
                            ELSE log_message(console, "settings_save_failed", 0)
    /\ st_loaded' = "none"
    /\ UNCHANGED <<backupVars, extVars, toolVars, sweepVars, threadVars, adbVars, pluginVars, app, ui_queue, installVars, st_phase,
                   st_sessions>>

\* the window is closed
Quit ==
    /\ st_phase = "running"
    /\ st_phase' = "off"
    /\ st_loaded' = "none"
    /\ UNCHANGED <<backupVars, extVars, toolVars, sweepVars, threadVars, adbVars, pluginVars, console, app, ui_queue, installVars, settings,
                   config_file, st_sessions, st_toggles, saved_settings>>

InitSettings ==
    /\ st_phase = "off"
    /\ settings = DefaultSettings
    /\ config_file = NoFile
    /\ st_sessions = 0
    /\ st_toggles = 0
    /\ st_loaded = "none"
    /\ saved_settings = NoMap

NextSettings == ExternalWrite \/ Startup \/ ToggleDarkTheme \/ Quit

(***************************************************************************)
(* External commands: check_adb, get_devices and run_adb_command (alpha    *)
(* lines 213-287), test_application (960-995), uninstall_package           *)
(* (1050-1066), check_device_connected and update_monitor (1150-1234).     *)
(***************************************************************************)
Serials == 1..MaxDevices

\* the sequences without repetition over S: what `adb devices` may list and
\* what selectedItems() may return
DistinctSeqs(S) ==
    {q \in UNION {[1..n -> S] : n \in 0..Cardinality(S)} :
        \A i, j \in DOMAIN q : i # j => q[i] # q[j]}

\* what the launched program does: it exits with status 0, exits with another
\* status, never exits, or cannot be started
Behaviours ==
    {"exit0", "exit1", "never_exits", "FileNotFoundError", "PermissionError"}

Returned(zero) == [kind |-> "returned", zero |-> zero, exc |-> "none"]
Raised(exc) == [kind |-> "raised", zero |-> FALSE, exc |-> exc]
Blocks == [kind |-> "blocks", zero |-> FALSE, exc |-> "none"]

\* subprocess.run(..., timeout=, check=): timeout is {} for no timeout and
\* {n} for n seconds
subprocess_run(timeout, check, beh) ==
    CASE beh \in {"FileNotFoundError", "PermissionError"} -> Raised(beh)
      [] beh = "never_exits" ->
            IF timeout = {} THEN Blocks ELSE Raised("TimeoutExpired")
      [] beh = "exit1" ->
            IF check THEN Raised("CalledProcessError") ELSE Returned(FALSE)
      [] OTHER -> Returned(TRUE)

\* one subprocess.run call in the source: the function it stands in, the
\* serial after -s ({} without one), its timeout and its check argument
Call(site, serial, timeout, check) ==
    [site |-> site, serial |-> serial, timeout |-> timeout, check |-> check]

NoEscape == [fn |-> "none", exc |-> "none"]

NoCall ==
    [fn |-> "none", device_specific |-> FALSE, selected |-> << >>,
     run_all |-> FALSE]

CallOf(fn) == [NoCall EXCEPT !.fn = fn]

UiFree == \A b \in blocked : b.thread # "ui"

WorkerFree == \A b \in blocked : b.thread # "worker"

\* the window exists, its thread is not stuck, and another call is within the bound
UiReady ==
    /\ app = "running"
    /\ adb_checked
    /\ UiFree
    /\ adb_ops < MaxOps

\* get_devices, lines 227-241, with the console log before it, the program
\* behaving as beh and listing the devices found: the result of
\* subprocess.run, the device list, the selection and the console afterwards
get_devices(log, beh, found) ==
    LET r == subprocess_run({}, FALSE, beh)
        devices == IF r.zero THEN found ELSE << >>
    IN  [r |-> r,
         call |-> Call("get_devices", {}, {}, FALSE),
         device_list |-> IF r.kind = "returned" THEN devices ELSE device_list,
         selected |-> IF r.kind = "returned" THEN << >> ELSE selected,
         log |-> IF r.kind # "returned" THEN log
                 ELSE IF devices # << >>
                      THEN log_message(log, "devices_found", Len(devices))
                      ELSE log_message(log, "no_devices", 0)]

\* the refresh button (line 324) calls get_devices; nothing catches what it raises
GetDevices ==
    /\ UiReady
    /\ adb_ops' = adb_ops + 1
    /\ \E beh \in Behaviours, found \in DistinctSeqs(Serials) :
          LET g == get_devices(console, beh, found)
          IN  /\ device_list' = g.device_list
              /\ selected' = g.selected
              /\ console' = g.log
              /\ launched' = <<g.call>>
              /\ escaped' = IF g.r.kind = "raised"
                            THEN [fn |-> "get_devices", exc |-> g.r.exc]
                            ELSE escaped
              /\ app' = IF g.r.kind = "raised" THEN "crashed" ELSE app
              /\ blocked' = IF g.r.kind = "blocks"
                            THEN blocked \cup {[thread |-> "ui", site |-> "get_devices"]}
                            ELSE blocked
    /\ last_call' = CallOf("get_devices")
    /\ UNCHANGED <<backupVars, extVars, toolVars, sweepVars, threadVars, pluginVars, ui_queue, installVars, settingsVars, adb_checked,
                   run_all_checkbox, monitor_labels, test_result>>

\* check_adb, lines 213-225, called by __init__ at line 137
CheckAdb ==
    /\ app = "running"
    /\ ~adb_checked
    /\ adb_checked' = TRUE
    /\ adb_ops' = adb_ops + 1
    /\ last_call' = CallOf("check_adb")
    /\ \E beh \in Behaviours, beh2 \in Behaviours, found \in DistinctSeqs(Serials) :
          LET c == Call("check_adb", {}, {}, FALSE)
              r == subprocess_run(c.timeout, c.check, beh)
              g == get_devices(log_message(console, "adb_available", 0), beh2, found)
          IN  IF r.kind = "returned" /\ r.zero THEN
                  \* line 221: get_devices inside the try block
                  /\ launched' = <<c, g.call>>
                  /\ device_list' = g.device_list
                  /\ selected' = g.selected
                  /\ escaped' = IF g.r.kind = "raised"
                                THEN [fn |-> "get_devices", exc |-> g.r.exc]
                                ELSE escaped
                  /\ blocked' = IF g.r.kind = "blocks"
                                THEN blocked \cup {[thread |-> "ui", site |-> "get_devices"]}
                                ELSE blocked
                  /\ IF g.r.kind = "raised"
                     THEN IF Catches({"FileNotFoundError"}, g.r.exc)
                          THEN /\ console' = log_message(g.log, "adb_not_found", 0)
                               /\ app' = app
                          ELSE /\ console' = g.log
                               /\ app' = "crashed"
                     ELSE /\ console' = g.log
                          /\ app' = app
              ELSE
                  /\ launched' = <<c>>
                  /\ UNCHANGED <<device_list, selected>>
                  /\ blocked' = IF r.kind = "blocks"
                                THEN blocked \cup {[thread |-> "ui", site |-> "check_adb"]}
                                ELSE blocked
                  /\ IF r.kind = "returned" \/
                        (r.kind = "raised" /\ Catches({"FileNotFoundError"}, r.exc))
                     THEN /\ console' = log_message(console, "adb_not_found", 0)
                          /\ UNCHANGED <<escaped, app>>
                     ELSE IF r.kind = "raised"
                     THEN /\ escaped' = [fn |-> "check_adb", exc |-> r.exc]
                          /\ app' = "crashed"
                          /\ UNCHANGED console
                     ELSE UNCHANGED <<escaped, app, console>>
    /\ UNCHANGED <<backupVars, extVars, toolVars, sweepVars, threadVars, pluginVars, ui_queue, installVars, settingsVars,
                   run_all_checkbox, monitor_labels, test_result>>

\* the user changes the selection in the device list (ExtendedSelection, line 322)
SelectDevices ==
    /\ app = "running"
    /\ adb_checked
    /\ UiFree
    /\ \E q \in DistinctSeqs({device_list[i] : i \in DOMAIN device_list}) :
          /\ q # selected
          /\ selected' = q
    /\ UNCHANGED <<backupVars, extVars, toolVars, sweepVars, threadVars, pluginVars, console, app, ui_queue, installVars, settingsVars,
                   adb_checked, device_list, run_all_checkbox, adb_ops,
                   last_call, launched, escaped, blocked, monitor_labels,
                   test_result>>

\* the user clicks the "run on all selected" checkbox (lines 330-331)
ToggleRunAll ==
    /\ app = "running"
    /\ adb_checked
    /\ UiFree
    /\ run_all_checkbox' = ~run_all_checkbox
    /\ UNCHANGED <<backupVars, extVars, toolVars, sweepVars, threadVars, pluginVars, console, app, ui_queue, installVars, settingsVars,
                   adb_checked, device_list, selected, adb_ops, last_call,
                   launched, escaped, blocked, monitor_labels, test_result>>

\* the command runs on every selected device whatever the checkbox says
Devices_AllSelected(device_specific, sel, run_all) ==
    IF device_specific THEN [i \in DOMAIN sel |-> {sel[i]}] ELSE << {} >>

\* run_adb_command, lines 254-263: the devices the loop runs over, each as the
\* serial after -s; {} is None, the global command.  With device_specific and
\* nothing selected the function returns before the loop.
Devices(device_specific, sel, run_all) ==
    IF device_specific THEN
        IF sel = << >> THEN << >>
        ELSE IF ~run_all THEN << {sel[1]} >>
        ELSE [i \in DOMAIN sel |-> {sel[i]}]
    ELSE << {} >>

\* the except clauses of run_adb_command, lines 284-287, in order
RunAdbHandlers == <<"TimeoutExpired", "Exception">>

\* run_adb_command, lines 265-287: the loop from device i on, with st the
\* console, the processes launched and the exception that left the loop
RECURSIVE RunAdbLoop(_, _, _, _)
RunAdbLoop(devs, behs, i, st) ==
    IF i > Len(devs) \/ st.exc # "none" THEN st
    ELSE LET c == Call("run_adb_command", devs[i], {30}, FALSE)
             r == subprocess_run(c.timeout, c.check, behs[i])
             log1 == log_message(st.log, "executing", 0)
             caught == {h \in DOMAIN RunAdbHandlers :
                           r.kind = "raised" /\ Catches({RunAdbHandlers[h]}, r.exc)}
             log2 == IF r.kind = "returned" THEN
                         IF r.zero THEN log_message(log1, "result", 0)
                         ELSE log_message(log_message(log1, "errors", 0),
                                          "exit_code", 0)
                     ELSE IF 1 \in caught THEN log_message(log1, "command_timeout", 0)
                     ELSE IF 2 \in caught THEN log_message(log1, "command_error", 0)
                     ELSE log1
         IN  RunAdbLoop(devs, behs, i + 1,
                        [log |-> log2,
                         procs |-> Append(st.procs, c),
                         exc |-> IF r.kind = "raised" /\ caught = {}
                                 THEN r.exc ELSE "none"])

\* run_adb_command, lines 246-287
RunAdbCommand ==
    /\ UiReady
    /\ adb_ops' = adb_ops + 1
    /\ \E device_specific \in BOOLEAN :
          /\ last_call' = [fn |-> "run_adb_command",
                           device_specific |-> device_specific,
                           selected |-> selected,
                           run_all |-> run_all_checkbox]
          /\ LET devs == Devices(device_specific, selected, run_all_checkbox)
             IN  IF device_specific /\ selected = << >>
                 THEN /\ console' = log_message(console, "no_device_selected", 0)
                      /\ launched' = << >>
                      /\ UNCHANGED <<escaped, app>>
                 ELSE \E behs \in [DOMAIN devs -> Behaviours] :
                        LET st == RunAdbLoop(devs, behs, 1,
                                     [log |-> console, procs |-> << >>,
                                      exc |-> "none"])
                        IN  /\ console' = st.log
                            /\ launched' = st.procs
                            /\ escaped' = IF st.exc # "none"
                                          THEN [fn |-> "run_adb_command",
                                                exc |-> st.exc]
                                          ELSE escaped
                            /\ app' = IF st.exc # "none" THEN "crashed" ELSE app
    /\ UNCHANGED <<backupVars, extVars, toolVars, sweepVars, threadVars, pluginVars, ui_queue, installVars, settingsVars, adb_checked,
                   device_list, selected, run_all_checkbox, blocked,
                   monitor_labels, test_result>>

\* the except clause of uninstall_package, line 1064
UninstallHandler == {"CalledProcessError"}

\* uninstall_package, lines 1050-1066
UninstallPackage ==
    /\ UiReady
    /\ adb_ops' = adb_ops + 1
    /\ last_call' = CallOf("uninstall_package")
    /\ \E beh \in Behaviours :
          LET c == Call("uninstall_package", {}, {30}, FALSE)
              r == subprocess_run(c.timeout, c.check, beh)
          IN  /\ launched' = <<c>>
              /\ IF r.kind = "returned" THEN
                     /\ console' = log_message(console,
                                      IF r.zero THEN "uninstalled"
                                      ELSE "uninstall_failed", 0)
                     /\ UNCHANGED <<escaped, app>>
                 ELSE IF Catches(UninstallHandler, r.exc) THEN
                     /\ console' = log_message(console, "uninstall_error", 0)
                     /\ UNCHANGED <<escaped, app>>
                 ELSE
                     /\ escaped' = [fn |-> "uninstall_package", exc |-> r.exc]
                     /\ app' = "crashed"
                     /\ UNCHANGED console
    /\ UNCHANGED <<backupVars, extVars, toolVars, sweepVars, threadVars, pluginVars, ui_queue, installVars, settingsVars, adb_checked,
                   device_list, selected, run_all_checkbox, blocked,
                   monitor_labels, test_result>>

\* the subprocess.run calls of a function in source order; the first one that
\* does not return ends the sequence
FirstStop(calls, behs) ==
    LET halts == {i \in DOMAIN calls :
                     subprocess_run(calls[i].timeout, calls[i].check,
                                    behs[i]).kind # "returned"}
    IN  IF halts = {} THEN Len(calls)
        ELSE CHOOSE i \in halts : \A j \in halts : i <= j

\* what the programs launched by calls may do, one behaviour per call: at most
\* one call meets a program that does not exit with status 0 (the calls after
\* the first one that does not return are never made)
Runs(calls) ==
    {[i \in DOMAIN calls |-> IF i = k THEN b ELSE "exit0"] :
        k \in DOMAIN calls, b \in Behaviours}

\* update_monitor, lines 1186-1234: check_device_connected (lines 1150-1161)
\* and the three dumps
MonitorCalls ==
    <<Call("check_device_connected", {}, {}, TRUE),
      Call("update_monitor", {}, {}, FALSE),
      Call("update_monitor", {}, {}, FALSE),
      Call("update_monitor", {}, {}, FALSE)>>

\* update_monitor, the slot of monitor_timer (lines 1180-1182)
UpdateMonitor ==
    /\ UiReady
    /\ adb_ops' = adb_ops + 1
    /\ last_call' = CallOf("update_monitor")
    /\ \E behs \in Runs(MonitorCalls), listed \in BOOLEAN :
          LET r1 == subprocess_run(MonitorCalls[1].timeout, MonitorCalls[1].check,
                                   behs[1])
              \* check_device_connected returns False on the exceptions it catches
              connected == r1.kind = "returned" /\ listed
              left1 == r1.kind = "raised" /\
                       ~Catches({"CalledProcessError", "FileNotFoundError"}, r1.exc)
              n == FirstStop(MonitorCalls, [behs EXCEPT ![1] = "exit0"])
              r == subprocess_run(MonitorCalls[n].timeout, MonitorCalls[n].check,
                                  behs[n])
          IN  IF r1.kind = "blocks" \/ left1 \/ ~connected THEN
                  /\ launched' = <<MonitorCalls[1]>>
                  /\ blocked' = IF r1.kind = "blocks"
                                THEN blocked \cup {[thread |-> "ui",
                                                    site |-> "check_device_connected"]}
                                ELSE blocked
                  /\ escaped' = IF left1
                                THEN [fn |-> "check_device_connected", exc |-> r1.exc]
                                ELSE escaped
                  /\ app' = IF left1 THEN "crashed" ELSE app
                  /\ monitor_labels' = IF r1.kind = "blocks" \/ left1
                                       THEN monitor_labels ELSE "N/A"
              ELSE
                  /\ launched' = SubSeq(MonitorCalls, 1, n)
                  /\ blocked' = IF r.kind = "blocks"
                                THEN blocked \cup {[thread |-> "ui",
                                                    site |-> "update_monitor"]}
                                ELSE blocked
                  /\ escaped' = IF r.kind = "raised"
                                THEN [fn |-> "update_monitor", exc |-> r.exc]
                                ELSE escaped
                  /\ app' = IF r.kind = "raised" THEN "crashed" ELSE app
                  /\ monitor_labels' = IF r.kind = "returned" THEN "values"
                                       ELSE IF n > 2 THEN "partial"
                                       ELSE monitor_labels
    /\ UNCHANGED <<backupVars, extVars, toolVars, sweepVars, threadVars, pluginVars, console, ui_queue, installVars, settingsVars,
                   adb_checked, device_list, selected, run_all_checkbox,
                   test_result>>

\* test_application, lines 964-987: logcat -c, monkey, logcat -d, force-stop
TestCalls ==
    <<Call("test_application", {}, {}, FALSE),
      Call("test_application", {}, {5}, FALSE),
      Call("test_application", {}, {10}, FALSE),
      Call("test_application", {}, {}, FALSE)>>

\* test_application, lines 960-995, run by the test worker thread (line 896)
TestApplication ==
    /\ app = "running"
    /\ adb_checked
    /\ WorkerFree
    /\ adb_ops < MaxOps
    /\ adb_ops' = adb_ops + 1
    /\ last_call' = CallOf("test_application")
    /\ \E behs \in Runs(TestCalls), fatal \in BOOLEAN :
          LET n == FirstStop(TestCalls, behs)
              r == subprocess_run(TestCalls[n].timeout, TestCalls[n].check, behs[n])
          IN  /\ launched' = SubSeq(TestCalls, 1, n)
              /\ blocked' = IF r.kind = "blocks"
                            THEN blocked \cup {[thread |-> "worker",
                                                site |-> "test_application"]}
                            ELSE blocked
              /\ test_result' = CASE r.kind = "returned" ->
                                        IF fatal THEN "crashed" ELSE "ok"
                                  [] r.kind = "raised" -> "crashed"
                                  [] OTHER -> test_result
              /\ ui_queue' =
                    IF r.kind = "raised" /\
                       ~Catches({"CalledProcessError", "TimeoutExpired"}, r.exc) /\
                       Catches({"Exception"}, r.exc)
                    THEN Emit(ui_queue, LogEvent("test_exception", 0))
                    ELSE ui_queue
    /\ UNCHANGED <<backupVars, extVars, toolVars, sweepVars, threadVars, pluginVars, console, app, installVars, settingsVars,
                   adb_checked, device_list, selected, run_all_checkbox, escaped,
                   monitor_labels>>

InitAdb ==
    /\ adb_checked = FALSE
    /\ device_list = << >>
    /\ selected = << >>
    /\ run_all_checkbox = FALSE
    /\ adb_ops = 0
    /\ last_call = NoCall
    /\ launched = << >>
    /\ escaped = NoEscape
    /\ blocked = {}
    /\ monitor_labels = "N/A"
    /\ test_result = "none"

NextAdb ==
    \/ CheckAdb
    \/ GetDevices
    \/ SelectDevices
    \/ ToggleRunAll
    \/ RunAdbCommand
    \/ UninstallPackage
    \/ UpdateMonitor
    \/ TestApplication
    \/ DeliverSignal

(***************************************************************************)
(* Application testing: get_user_packages (alpha lines 848-880), the sweep *)
(* (882-955) and delete_all_problematic_apps (1021-1048).                  *)
(***************************************************************************)
Pkgs == 1..MaxPkgs

\* the rows get_user_packages puts into app_tree, lines 869-875
WaitingRows(pkgs) == [i \in DOMAIN pkgs |-> [pkg |-> pkgs[i], status |-> "waiting"]]

NoRefresh == [done |-> FALSE, ids |-> << >>]

\* get_user_packages, lines 848-880, the clicked slot of get_packages_btn
\* (line 796).  `pm list packages -3` lists the packages found; blank tells
\* whether an output without package lines still has characters in it.
GetUserPackages ==
    /\ app = "running"
    /\ UiFree
    /\ refreshes < MaxRefresh
    /\ refreshes' = refreshes + 1
    /\ \E beh \in Behaviours, found \in DistinctSeqs(Pkgs), blank \in BOOLEAN :
          LET r == subprocess_run({}, TRUE, beh)
              log1 == log_message(console, "requesting_packages", 0)
          IN  /\ (found # << >> => ~blank)
              /\ IF r.kind = "returned" THEN
                     /\ pkg_refresh' = [done |-> TRUE, ids |-> found]
                     /\ IF found # << >> \/ blank THEN
                            /\ packages' = found
                            /\ console' = log_message(log1, "packages_found",
                                                      Len(found))
                            /\ start_test_btn' = TRUE
                            /\ app_tree' = WaitingRows(found)
                        ELSE
                            /\ console' = log_message(log1, "no_packages", 0)
                            /\ UNCHANGED <<packages, start_test_btn, app_tree>>
                     /\ UNCHANGED <<escaped, blocked, app>>
                 ELSE IF r.kind = "raised" THEN
                     /\ IF Catches({"CalledProcessError"}, r.exc)
                        THEN /\ console' = log_message(log1, "packages_error", 0)
                             /\ UNCHANGED <<escaped, app>>
                        ELSE /\ console' = log1
                             /\ escaped' = [fn |-> "get_user_packages",
                                            exc |-> r.exc]
                             /\ app' = "crashed"
                     /\ UNCHANGED <<packages, start_test_btn, app_tree,
                                    pkg_refresh, blocked>>
                 ELSE
                     /\ console' = log1
                     /\ blocked' = blocked \cup
                           {[thread |-> "ui", site |-> "get_user_packages"]}
                     /\ UNCHANGED <<packages, start_test_btn, app_tree,
                                    pkg_refresh, escaped, app>>
    /\ UNCHANGED <<backupVars, extVars, toolVars, pluginVars, ui_queue, installVars, settingsVars, threadVars,
                   adb_checked, device_list, selected, run_all_checkbox, adb_ops,
                   last_call, launched, monitor_labels, test_result,
                   crashed_apps, testing, stop_test_btn, delete_all_btn, tw,
                   stop_clicks, test_reports, del_call>>

\* a worker thread running test_applications_thread, at its first statement
NewWorker ==
    [pc |-> "begin", iter |-> << >>, i |-> 0, k |-> 0, crashed |-> FALSE,
     delay |-> 0, d |-> 0, since_stop |-> 0,
     tested |-> << >>]       \* the packages test_application has returned for

\* the worker has not left WorkerThread.run
Alive(w) == tw[w].pc # "done"

\* a start that is also refused while a mass installation is in progress
TestingRefused_WhileInstalling == packages = << >> \/ install_in_progress

\* start_app_testing, lines 883-885: the start is refused without packages
TestingRefused == packages = << >>

\* start_app_testing, lines 882-898, the clicked slot of start_test_btn (line
\* 799); without packages it only opens a dialog.  The thread object replaces
\* the one in self.test_worker_thread; a thread that is still running goes on.
StartAppTesting ==
    /\ app = "running"
    /\ UiFree
    /\ start_test_btn
    /\ Len(tw) < MaxSweeps
    /\ ~TestingRefused
    /\ testing' = TRUE
    /\ crashed_apps' = << >>
    /\ start_test_btn' = FALSE
    /\ stop_test_btn' = TRUE
    /\ test_progress' = 0
    /\ console' = log_message(console, "testing_started", 0)
    /\ tw' = Append([w \in DOMAIN tw |-> [tw[w] EXCEPT !.since_stop = 0]],
                    NewWorker)
    /\ UNCHANGED <<backupVars, extVars, toolVars, pluginVars, app, ui_queue, settingsVars, adbVars, threadVars,
                   apk_files, install_in_progress, stop_installation,
                   progress_bar, progress_connected, start_install_btn,
                   stop_install_btn, runs, w_pc, w_total, w_iter, w_i,
                   w_success, w_failed, w_entries, reports, json_files,
                   html_files, packages, app_tree, delete_all_btn, refreshes,
                   stop_clicks, test_reports, pkg_refresh, del_call>>

\* stop_app_testing, lines 900-902, the clicked slot of stop_test_btn (line 803)
StopAppTesting ==
    /\ app = "running"
    /\ UiFree
    /\ stop_test_btn
    /\ stop_clicks < MaxStops
    /\ stop_clicks' = stop_clicks + 1
    /\ testing' = FALSE
    /\ console' = log_message(console, "testing_stopped", 0)
    /\ UNCHANGED <<backupVars, extVars, toolVars, pluginVars, app, ui_queue, installVars, settingsVars, adbVars,
                   threadVars, packages, app_tree, crashed_apps, start_test_btn,
                   stop_test_btn, delete_all_btn, tw, refreshes, test_reports,
                   pkg_refresh, del_call>>

\* what a step of a sweep worker leaves alone besides the variables it names
SweepFrame ==
    UNCHANGED <<backupVars, extVars, toolVars, pluginVars, console, installVars, settingsVars, adb_checked,
                device_list, selected, run_all_checkbox, adb_ops, last_call,
                launched, escaped, monitor_labels, test_result, packages,
                testing, start_test_btn, stop_test_btn, delete_all_btn,
                refreshes, stop_clicks, test_reports, pkg_refresh, del_call,
                w_since_stop>>

\* test_applications_thread, lines 920-921: the delay and the list the loop
\* runs over, self.packages as it is when the for statement starts
SweepBegin(w) ==
    /\ app = "running"
    /\ tw[w].pc = "begin"
    /\ \E delay \in 0..MaxDelay :
          tw' = [tw EXCEPT ![w] = [@ EXCEPT !.pc = "check", !.iter = packages,
                                            !.delay = delay]]
    /\ UNCHANGED <<app, ui_queue, blocked, app_tree, crashed_apps,
                   worker_widget_calls, worker_writes>>
    /\ SweepFrame

\* lines 922-923: the loop is left when self.testing is false
SweepStops(flag) == ~flag

\* lines 921-925: the next package, the end of the list, or the break
SweepCheck(w) ==
    /\ app = "running"
    /\ tw[w].pc = "check"
    /\ tw' = [tw EXCEPT ![w] =
                IF tw[w].i >= Len(tw[w].iter) \/ SweepStops(testing)
                THEN [@ EXCEPT !.pc = "summary"]
                ELSE [@ EXCEPT !.pc = "call", !.k = 1]]
    /\ UNCHANGED <<app, ui_queue, blocked, app_tree, crashed_apps,
                   worker_widget_calls, worker_writes>>
    /\ SweepFrame

\* test_application, lines 960-995, one subprocess.run call at a time: call
\* tw[w].k of TestCalls; fatal tells whether the log shows a crash
SweepCall(w) ==
    /\ app = "running"
    /\ tw[w].pc = "call"
    /\ \E beh \in Behaviours, fatal \in BOOLEAN :
          LET k == tw[w].k
              r == subprocess_run(TestCalls[k].timeout, TestCalls[k].check, beh)
              n == IF testing THEN tw[w].since_stop ELSE tw[w].since_stop + 1
          IN  /\ (fatal => r.kind = "returned" /\ k = Len(TestCalls))
              /\ IF r.kind = "returned" THEN
                     /\ tw' = [tw EXCEPT ![w] =
                                 IF k < Len(TestCalls)
                                 THEN [@ EXCEPT !.k = k + 1, !.since_stop = n]
                                 ELSE [@ EXCEPT !.pc = "record", !.k = 0,
                                                !.crashed = fatal,
                                                !.since_stop = n]]
                     /\ UNCHANGED <<ui_queue, blocked>>
                 ELSE IF r.kind = "raised" THEN
                     /\ tw' = [tw EXCEPT ![w] =
                                 [@ EXCEPT !.pc = "record", !.k = 0,
                                           !.crashed = TRUE, !.since_stop = n]]
                     /\ ui_queue' =
                           IF Catches({"CalledProcessError", "TimeoutExpired"},
                                      r.exc)
                           THEN ui_queue
                           ELSE Emit(ui_queue, LogEvent("test_exception", 0))
                     /\ UNCHANGED blocked
                 ELSE
                     /\ tw' = [tw EXCEPT ![w] =
                                 [@ EXCEPT !.pc = "blocked", !.since_stop = n]]
                     /\ blocked' = blocked \cup
                           {[thread |-> "worker", site |-> "test_application"]}
                     /\ UNCHANGED ui_queue
    /\ UNCHANGED <<app, app_tree, crashed_apps, worker_widget_calls,
                   worker_writes>>
    /\ SweepFrame

\* update_app_test_status, lines 951-955: the row at index, if there is one
SetRowStatus(tree, index, status) ==
    IF index \in DOMAIN tree THEN [tree EXCEPT ![index].status = status]
    ELSE tree

\* self.crashed_apps[pkg] = result, line 931
DictSet(keys, pkg) ==
    IF \E j \in DOMAIN keys : keys[j] = pkg THEN keys ELSE Append(keys, pkg)

\* lines 927-935: the row of the tree is changed and the dictionary written
\* on the worker thread, then the progress signal.  The call into the widget
\* from another thread than the GUI thread either works or takes the process
\* down.
SweepRecord(w) ==
    /\ app = "running"
    /\ tw[w].pc = "record"
    /\ worker_widget_calls' = worker_widget_calls \cup {"app_tree.setText"}
    /\ \/ LET pkg == tw[w].iter[tw[w].i + 1]
          IN  /\ app_tree' = SetRowStatus(app_tree, tw[w].i + 1,
                                IF tw[w].crashed THEN "crashed" ELSE "ok")
              /\ crashed_apps' = IF tw[w].crashed THEN DictSet(crashed_apps, pkg)
                                 ELSE crashed_apps
              /\ worker_writes' = IF tw[w].crashed
                                  THEN worker_writes \cup {"crashed_apps"}
                                  ELSE worker_writes
              /\ ui_queue' = Emit(ui_queue, ProgressEvent(tw[w].i + 1))
              /\ tw' = [tw EXCEPT ![w] = [@ EXCEPT !.pc = "delay",
                                                   !.i = @ + 1,
                                                   !.d = tw[w].delay,
                                                   !.tested = Append(@, pkg)]]
              /\ UNCHANGED app
       \/ /\ app' = "crashed"
          /\ UNCHANGED <<tw, app_tree, crashed_apps, worker_writes, ui_queue>>
    /\ UNCHANGED blocked
    /\ SweepFrame

\* lines 938-942: the delay before the next test, one second at a time
SweepDelay(w) ==
    /\ app = "running"
    /\ tw[w].pc = "delay"
    /\ IF tw[w].d = 0 \/ SweepStops(testing)
       THEN /\ tw' = [tw EXCEPT ![w] = [@ EXCEPT !.pc = "check", !.d = 0]]
            /\ UNCHANGED ui_queue
       ELSE /\ tw' = [tw EXCEPT ![w] = [@ EXCEPT !.d = @ - 1]]
            /\ ui_queue' = Emit(ui_queue, LogEvent("waiting", 0))
    /\ UNCHANGED <<app, blocked, app_tree, crashed_apps, worker_widget_calls,
                   worker_writes>>
    /\ SweepFrame

\* lines 944-947 and the end of WorkerThread.run (lines 52-58): the last log
\* line, then finished_signal
SweepSummary(w) ==
    /\ app = "running"
    /\ tw[w].pc = "summary"
    /\ ui_queue' = Emit(Emit(ui_queue,
                             LogEvent(IF crashed_apps # << >>
                                      THEN "testing_done_crashed"
                                      ELSE "testing_done_clean", 0)),
                        FinishedTestEvent)
    /\ tw' = [tw EXCEPT ![w] = [NewWorker EXCEPT !.pc = "done",
                                                  !.tested = tw[w].tested]]
    /\ UNCHANGED <<app, blocked, app_tree, crashed_apps, worker_widget_calls,
                   worker_writes>>
    /\ SweepFrame

SweepStep ==
    \E w \in DOMAIN tw :
        \/ SweepBegin(w)
        \/ SweepCheck(w)
        \/ SweepCall(w)
        \/ SweepRecord(w)
        \/ SweepDelay(w)
        \/ SweepSummary(w)

\* uninstall_package, lines 1050-1066, with adb behaving as beh: what it
\* returns, or the class of the exception that leaves it
uninstall_package(beh) ==
    LET r == subprocess_run({30}, FALSE, beh)
    IN  IF r.kind = "returned" THEN [ret |-> r.zero, exc |-> "none"]
        ELSE IF Catches(UninstallHandler, r.exc) THEN [ret |-> FALSE, exc |-> "none"]
        ELSE [ret |-> FALSE, exc |-> r.exc]

\* the items the loop of lines 1035-1042 reaches: all of them, or those up to
\* the first one on which uninstall_package raises
Reached(keys, behs) ==
    LET bad == {i \in DOMAIN keys : uninstall_package(behs[i]).exc # "none"}
    IN  IF bad = {} THEN Len(keys)
        ELSE CHOOSE i \in bad : \A j \in bad : i <= j

NoDelete == [items |-> << >>, tried |-> << >>, failed |-> {}, returned |-> FALSE]

\* delete_all_problematic_apps, lines 1021-1048, the clicked slot of
\* delete_all_btn (line 835), when the user confirms
DeleteAllProblematicApps ==
    /\ app = "running"
    /\ UiFree
    /\ delete_all_btn
    /\ crashed_apps # << >>
    /\ \E behs \in [DOMAIN crashed_apps -> Behaviours] :
          LET n == Reached(crashed_apps, behs)
              last == uninstall_package(behs[n])
              gone == {crashed_apps[i] : i \in
                          {j \in 1..n : uninstall_package(behs[j]).ret}}
              logs == [i \in 1..n |->
                          IF uninstall_package(behs[i]).exc # "none" THEN "none"
                          ELSE IF uninstall_package(behs[i]).ret THEN "uninstalled"
                          ELSE "uninstall_failed"]
          IN  /\ del_call' = [items |-> crashed_apps,
                              tried |-> SubSeq(crashed_apps, 1, n),
                              failed |-> {crashed_apps[i] : i \in
                                            {j \in 1..n : logs[j] = "uninstall_failed"}},
                              returned |-> last.exc = "none"]
              /\ app_tree' = SelectSeq(app_tree, LAMBDA row : row.pkg \notin gone)
              /\ console' = console (+)
                    SetToBag({LogLine(logs[i], crashed_apps[i]) :
                                 i \in {j \in 1..n : logs[j] # "none"}})
              /\ IF last.exc = "none"
                 THEN /\ crashed_apps' = << >>
                      /\ delete_all_btn' = FALSE
                      /\ UNCHANGED <<escaped, app>>
                 ELSE /\ escaped' = [fn |-> "uninstall_package", exc |-> last.exc]
                      /\ app' = "crashed"
                      /\ UNCHANGED <<crashed_apps, delete_all_btn>>
    /\ UNCHANGED <<backupVars, extVars, toolVars, pluginVars, ui_queue, installVars, settingsVars, threadVars,
                   adb_checked, device_list, selected, run_all_checkbox, adb_ops,
                   last_call, launched, blocked, monitor_labels, test_result,
                   packages, testing, start_test_btn, stop_test_btn, tw,
                   refreshes, stop_clicks, test_reports, pkg_refresh>>

InitSweep ==
    /\ packages = << >>
    /\ app_tree = << >>
    /\ crashed_apps = << >>
    /\ testing = FALSE
    /\ start_test_btn = FALSE
    /\ stop_test_btn = FALSE
    /\ delete_all_btn = FALSE
    /\ tw = << >>
    /\ refreshes = 0
    /\ stop_clicks = 0
    /\ test_reports = << >>
    /\ pkg_refresh = NoRefresh
    /\ del_call = NoDelete

InitThreads ==
    /\ worker_widget_calls = {}
    /\ worker_writes = {}
    /\ w_since_stop = 0

NextSweep ==
    \/ GetUserPackages
    \/ StartAppTesting
    \/ StopAppTesting
    \/ SweepStep
    \/ DeleteAllProblematicApps
    \/ DeliverSignal

(***************************************************************************)
(* Script editor, alpha lines 1372-1405.                                   *)
(***************************************************************************)
\* lines 1390-1392: the commands of the script, the lines that are neither
\* blank nor comments; only their number is kept
ScriptSizes == 0..MaxLines

\* a WorkerThread running exec_lines over n commands, created while others
\* script workers were still running
NewScript(n, others) == [pc |-> "running", lines |-> n, i |-> 0, overlap |-> others]

\* the script worker has not left WorkerThread.run
ScriptAlive(s) == sw[s].pc = "running"

\* run_script, lines 1389-1405, the clicked slot of run_btn (line 1383): an
\* empty script only opens a dialog.  Nothing looks at the thread of an
\* earlier click.  self.script_thread holds the only reference to that
\* thread: replacing it while the thread runs destroys a running QThread,
\* which ends the process, unless the object outlives the assignment, and
\* then both threads run.
RunScript ==
    /\ app = "running"
    /\ UiFree
    /\ script_clicks < MaxScripts
    /\ script_clicks' = script_clicks + 1
    /\ \E n \in ScriptSizes :
          IF n = 0 THEN UNCHANGED <<sw, app>>
          ELSE LET others == Cardinality({s \in DOMAIN sw : ScriptAlive(s)})
               IN  /\ sw' = Append(sw, NewScript(n, others))
                   /\ IF others = 0 THEN UNCHANGED app
                      ELSE app' \in {"running", "crashed"}
    /\ UNCHANGED <<backupVars, extVars, pluginVars, console, ui_queue, installVars, settingsVars,
                   adbVars, sweepVars, threadVars, keyVars, romVars>>

\* exec_lines, lines 1397-1401, one command: log_message and run_adb_command
\* (lines 246-287) are called on the worker thread, where they read
\* device_list and append to the console.  The calls into the widgets from
\* another thread than the GUI thread either work or take the process down.
ScriptStep(s) ==
    /\ app = "running"
    /\ ScriptAlive(s)
    /\ worker_widget_calls' =
          worker_widget_calls \cup {"console.append", "device_list.selectedItems"}
    /\ \/ /\ LET devs == Devices(TRUE, selected, run_all_checkbox)
                 log0 == log_message(console, "script_line", 0)
             IN  IF selected = << >>
                 THEN /\ console' = log_message(log0, "no_device_selected", 0)
                      /\ launched' = << >>
                 ELSE \E behs \in [DOMAIN devs -> Behaviours] :
                        LET st == RunAdbLoop(devs, behs, 1,
                                     [log |-> log0, procs |-> << >>,
                                      exc |-> "none"])
                        IN  /\ console' = st.log
                            /\ launched' = st.procs
          /\ last_call' = [fn |-> "run_adb_command", device_specific |-> TRUE,
                           selected |-> selected, run_all |-> run_all_checkbox]
          /\ sw' = [sw EXCEPT ![s] =
                       [@ EXCEPT !.i = @ + 1,
                                 !.pc = IF sw[s].i + 1 = sw[s].lines
                                        THEN "done" ELSE "running"]]
          /\ UNCHANGED app
       \/ /\ app' = "crashed"
          /\ UNCHANGED <<sw, console, launched, last_call>>
    /\ UNCHANGED <<backupVars, extVars, pluginVars, ui_queue, installVars, settingsVars, sweepVars,
                   worker_writes, w_since_stop, script_clicks, keyVars, romVars,
                   adb_checked, device_list, selected, run_all_checkbox, adb_ops,
                   escaped, blocked, monitor_labels, test_result>>

InitScript ==
    /\ sw = << >>
    /\ script_clicks = 0

ScriptSteps == \E s \in DOMAIN sw : ScriptStep(s)

NextScript ==
    \/ CheckAdb
    \/ GetDevices
    \/ SelectDevices
    \/ RunScript
    \/ ScriptSteps

(***************************************************************************)
(* Text.  A Python string is the sequence of its characters.               *)
(***************************************************************************)
DigitChars == <<"0", "1", "2", "3", "4", "5", "6", "7", "8", "9">>

\* the class \d of the pattern, over the characters of the model
IsDigit(c) == \E d \in DOMAIN DigitChars : DigitChars[d] = c

DigitValue(c) == (CHOOSE d \in DOMAIN DigitChars : DigitChars[d] = c) - 1

IsSpace(c) == c = " "

\* str(n) of an integer
RECURSIVE str(_)
str(n) ==
    IF n < 0 THEN <<"-">> \o str(-n)
    ELSE IF n < 10 THEN <<DigitChars[n + 1]>>
    ELSE Append(str(n \div 10), DigitChars[(n % 10) + 1])

RECURSIVE lstrip(_)
lstrip(text) ==
    IF text # << >> /\ IsSpace(Head(text)) THEN lstrip(Tail(text)) ELSE text

RECURSIVE rstrip(_)
rstrip(text) ==
    IF text # << >> /\ IsSpace(text[Len(text)])
    THEN rstrip(SubSeq(text, 1, Len(text) - 1)) ELSE text

\* str.strip()
strip(text) == lstrip(rstrip(text))

\* the value of a sequence of decimal digits
RECURSIVE DecimalValue(_)
DecimalValue(digits) ==
    IF digits = << >> THEN 0
    ELSE 10 * DecimalValue(SubSeq(digits, 1, Len(digits) - 1))
           + DigitValue(digits[Len(digits)])

\* int(text) of a text that is decimal digits between white space (the only
\* texts the validator passes to it)
int(text) == DecimalValue(strip(text))

(***************************************************************************)
(* Plugin hardware_key_emulator: the custom keycode field.                 *)
(***************************************************************************)
\* a pattern that allows one or two digits
fullmatch_digits_TwoAtMost(text) ==
    /\ Len(text) \in 1..2
    /\ \A i \in DOMAIN text : IsDigit(text[i])

\* re.fullmatch(r"\d{1,3}", text), line 309
fullmatch_digits(text) ==
    /\ Len(text) \in 1..3
    /\ \A i \in DOMAIN text : IsDigit(text[i])

\* _is_valid_keycode, lines 307-309 (alpha_on_english lines 300-302): the
\* right operand of `and` is evaluated only when the pattern matched
_is_valid_keycode(text) ==
    IF fullmatch_digits(strip(text))
    THEN 0 <= int(text) /\ int(text) <= 255
    ELSE FALSE

\* what the user may type into the field
TypedTexts ==
    {str(n) : n \in -1..MaxTyped}
       \cup {<< >>, <<"a", "b", "c">>, <<" ", "7">>, <<"7", " ">>,
             <<"0", "0", "7">>, <<"0", "2", "5", "6">>, <<"1", "a">>}

\* validate_custom, lines 423-426, the textChanged slot of edit_custom
ValidateCustom ==
    /\ app = "running"
    /\ \E text \in TypedTexts :
          /\ text # edit_custom
          /\ edit_custom' = text
          /\ btn_custom' = _is_valid_keycode(text)
    /\ UNCHANGED <<backupVars, extVars, pluginVars, console, app, ui_queue, installVars, settingsVars,
                   adbVars, sweepVars, threadVars, scriptVars, romVars>>

\* lines 416-420: the field is empty and the button disabled
InitKeys ==
    /\ edit_custom = << >>
    /\ btn_custom = FALSE

NextKeys == ValidateCustom

(***************************************************************************)
(* Plugin rom_usage_progress: RomUsageDialog.                              *)
(***************************************************************************)
\* int(a / b) for a >= 0 and b > 0: the quotient, truncated
IntOfQuotient(a, b) == a \div b

\* f"rgb({r},{g},0)", line 100
Rgb(r, g) ==
    <<"r", "g", "b", "(">> \o str(r) \o <<",">> \o str(g) \o <<",", "0", ")">>

\* the two channels exchanged
_color_for_percent_RedFirst(percent) ==
    LET p == IF percent < 0 THEN 0 ELSE IF percent > 100 THEN 100 ELSE percent
    IN  IF p <= 50 THEN Rgb(255, IntOfQuotient(255 * p, 50))
        ELSE Rgb(IntOfQuotient(255 * (100 - p), 50), 255)

\* _color_for_percent, lines 78-100
_color_for_percent(percent) ==
    LET p == IF percent < 0 THEN 0 ELSE IF percent > 100 THEN 100 ELSE percent
    IN  IF p <= 50 THEN Rgb(IntOfQuotient(255 * p, 50), 255)
        ELSE Rgb(255, IntOfQuotient(255 * (100 - p), 50))

\* what _parse_rom_percent (lines 54-75) returns: the number in front of
\* "% /data", or -1 when the output has none (also when adb failed and
\* _run_adb returned "")
ParsedPercents == -1..MaxPercent

\* QProgressBar.setValue with the range 0..100 of line 128: a value outside
\* the range is ignored
SetValue(current, v) == IF v \in 0..100 THEN v ELSE current

\* RomUsageDialog.refresh, lines 138-173
Refresh ==
    /\ app = "running"
    /\ \E percent \in ParsedPercents :
          IF percent < 0
          THEN /\ rom_info' = -1
               /\ rom_progress' = SetValue(rom_progress, 0)
               /\ rom_style' = << >>
          ELSE /\ rom_info' = percent
               /\ rom_progress' = SetValue(rom_progress, percent)
               /\ rom_style' = _color_for_percent(percent)
    /\ UNCHANGED <<backupVars, extVars, pluginVars, console, app, ui_queue, installVars, settingsVars,
                   adbVars, sweepVars, threadVars, scriptVars, keyVars>>

\* RomUsageDialog.__init__, lines 112-136
InitRom ==
    /\ rom_info = -1
    /\ rom_progress = 0
    /\ rom_style = << >>

NextRom == Refresh

(***************************************************************************)
(* Battery level: update_monitor (alpha lines 1193-1203) and plugin        *)
(* battery_monitor_extended (alpha_on_english).  The output of `dumpsys    *)
(* battery` is the sequence of its lines (str.splitlines).                 *)
(***************************************************************************)
UpperChars == <<"A", "B", "C", "S", "U">>

LowerChars == <<"a", "b", "c", "s", "u">>

\* str.lower(), over the letters of the model
LowerChar(c) ==
    IF \E k \in DOMAIN UpperChars : UpperChars[k] = c
    THEN LowerChars[CHOOSE k \in DOMAIN UpperChars : UpperChars[k] = c]
    ELSE c

lower(text) == [i \in DOMAIN text |-> LowerChar(text[i])]

\* `sub in text`
Contains(text, sub) ==
    \E k \in 0..(Len(text) - Len(sub)) : SubSeq(text, k + 1, k + Len(sub)) = sub

\* the index of the first c in text, 0 when there is none
IndexOf(text, c) ==
    IF \E i \in DOMAIN text : text[i] = c
    THEN CHOOSE i \in DOMAIN text : text[i] = c /\ \A j \in 1..(i - 1) : text[j] # c
    ELSE 0

\* text.split(c)
RECURSIVE split(_, _)
split(text, c) ==
    LET k == IndexOf(text, c)
    IN  IF k = 0 THEN <<text>>
        ELSE <<SubSeq(text, 1, k - 1)>> \o split(SubSeq(text, k + 1, Len(text)), c)

\* text.split(c, 1) of a text that holds c
split1(text, c) ==
    LET k == IndexOf(text, c)
    IN  <<SubSeq(text, 1, k - 1), SubSeq(text, k + 1, Len(text))>>

\* int() accepts decimal digits between white space (the model has no signs
\* in its outputs); anything else raises ValueError
IsDecimal(text) ==
    /\ strip(text) # << >>
    /\ \A i \in DOMAIN strip(text) : IsDigit(strip(text)[i])

LevelLine == <<"l", "e", "v", "e", "l", ":", " ", "7", "6">>

\* lines of a `dumpsys battery` output
BatteryLines ==
    {LevelLine,
     <<" ", " ", "l", "e", "v", "e", "l", ":", " ", "7", "6">>,
     <<"C", "u", "r", "r", "e", "n", "t", " ", "B", "a", "t", "t", "e", "r", "y", " ", "S", "e", "r", "v", "i", "c", "e", " ", "s", "t", "a", "t", "e", ":">>,
     <<" ", " ", "A", "C", " ", "p", "o", "w", "e", "r", "e", "d", ":", " ", "f", "a", "l", "s", "e">>,
     <<" ", " ", "s", "c", "a", "l", "e", ":", " ", "1", "0", "0">>,
     <<" ", " ", "v", "o", "l", "t", "a", "g", "e", ":", " ", "4", "1", "2", "3">>,
     <<" ", " ", "t", "e", "m", "p", "e", "r", "a", "t", "u", "r", "e", ":", " ", "3", "0", "1">>,
     <<" ", " ", "s", "t", "a", "t", "u", "s", ":", " ", "2">>}

\* the outputs the program may read
BatteryDumps ==
    {q \in UNION {[1..n -> BatteryLines] : n \in 0..MaxDumpLines} :
        \A i, j \in DOMAIN q : i # j => q[i] # q[j]}

\* a parser that takes the text in front of the first colon
MonitorLevel_BeforeColon(out) ==
    LET hits == {i \in DOMAIN out : Contains(out[i], <<"l", "e", "v", "e", "l", ":">>)}
    IN  IF hits = {} THEN <<"?">>
        ELSE strip(split(out[CHOOSE i \in hits : \A j \in hits : i <= j], ":")[1])

\* update_monitor, lines 1198-1202: the text after the first colon of the
\* first line that holds "level:"
MonitorLevel(out) ==
    LET hits == {i \in DOMAIN out : Contains(out[i], <<"l", "e", "v", "e", "l", ":">>)}
    IN  IF hits = {} THEN <<"?">>
        ELSE strip(split(out[CHOOSE i \in hits : \A j \in hits : i <= j], ":")[2])

\* update_monitor, lines 1193-1203: the battery label
MonitorBattery ==
    /\ app = "running"
    /\ \E out \in BatteryDumps :
          /\ bat_out' = out
          /\ battery_label' = MonitorLevel(out)
    /\ UNCHANGED <<backupVars, viewerVars, pluginVars, console, app, ui_queue, installVars, settingsVars,
                   adbVars, sweepVars, threadVars, toolVars, batt_out,
                   batt_widgets, batt_updates>>

\* _parse_battery_output, lines 33-37: the dictionary the loop builds, a later
\* line replacing an earlier one with the same key; << >> stands for a
\* missing key
RECURSIVE BatteryData(_, _)
BatteryData(out, key) ==
    IF out = << >> THEN << >>
    ELSE LET line == out[Len(out)]
             rest == SubSeq(out, 1, Len(out) - 1)
         IN  IF IndexOf(line, ":") # 0
                /\ lower(strip(split1(line, ":")[1])) = key
             THEN <<strip(split1(line, ":")[2])>>
             ELSE BatteryData(rest, key)

\* _parse_battery_output, lines 27-51: the dictionary it returns, or the
\* exception int() raises
_parse_battery_output(out) ==
    LET level == BatteryData(out, <<"l", "e", "v", "e", "l">>)
        voltage == BatteryData(out, <<"v", "o", "l", "t", "a", "g", "e">>)
        temperature == BatteryData(out, <<"t", "e", "m", "p", "e", "r", "a", "t", "u", "r", "e">>)
        status == BatteryData(out, <<"s", "t", "a", "t", "u", "s">>)
        numbers == level \o (IF voltage # << >> /\ voltage[1] # << >>
                             THEN voltage ELSE << >>)
                         \o (IF temperature # << >> /\ temperature[1] # << >>
                             THEN temperature ELSE << >>)
    IN  IF \E i \in DOMAIN numbers : ~IsDecimal(numbers[i])
        THEN [raised |-> "ValueError"]
        ELSE [raised |-> "none",
              level |-> IF level = << >> THEN -1 ELSE int(level[1]),
              voltage |-> IF voltage # << >> /\ voltage[1] # << >>
                          THEN int(voltage[1]) \div 1000 ELSE -1,
              \* int(...) / 10, kept as the number of tenths
              temperature |-> IF temperature # << >> /\ temperature[1] # << >>
                              THEN int(temperature[1]) ELSE -10,
              status |-> IF status = << >> THEN <<"U", "N", "K", "N", "O", "W", "N">> ELSE status[1]]

\* _update_ui, lines 76-109, with _fetch_battery, lines 54-73: check_output
\* with timeout=5 raises when adb fails, and so may the parser; the except
\* clause logs one line and the widgets are left as they are
UpdateUi ==
    /\ app = "running"
    /\ batt_updates < MaxBattery
    /\ batt_updates' = batt_updates + 1
    /\ \E beh \in Behaviours, out \in BatteryDumps :
          LET r == subprocess_run({5}, TRUE, beh)
              data == _parse_battery_output(out)
          IN  IF r.kind = "returned" THEN
                  /\ batt_out' = out
                  /\ IF data.raised = "none"
                     THEN /\ batt_widgets' =
                                [level |-> data.level,
                                 colour |-> IF data.level >= 80 THEN "green"
                                            ELSE IF data.level >= 30 THEN "yellow"
                                            ELSE "red",
                                 voltage |-> data.voltage,
                                 temperature |-> data.temperature,
                                 status |-> data.status]
                          /\ UNCHANGED console
                     ELSE /\ console' = log_message(console, "battery_error", 0)
                          /\ UNCHANGED batt_widgets
              ELSE /\ console' = log_message(console, "battery_error", 0)
                   /\ UNCHANGED <<batt_out, batt_widgets>>
    /\ UNCHANGED <<backupVars, viewerVars, pluginVars, app, ui_queue, installVars, settingsVars, adbVars,
                   sweepVars, threadVars, toolVars, bat_out, battery_label>>

\* no output read yet; the widgets as register creates them
NoWidgets == [level |-> -1, colour |-> "none", voltage |-> -1,
              temperature |-> -10, status |-> << >>]

InitBattery ==
    /\ bat_out = << >>
    /\ batt_out = << >>
    /\ battery_label = <<"?">>
    /\ batt_widgets = NoWidgets
    /\ batt_updates = 0

NextBattery == MonitorBattery \/ UpdateUi

(***************************************************************************)
(* Plugin extended_backups.                                                *)
(***************************************************************************)
\* the check boxes of a partial backup, in the order run looks at them
Categories == <<"photos", "videos", "documents", "user_apps", "system_apps">>

\* what the user may have checked: nothing, the full backup, or some of the
\* categories of a partial one
BackupChoices ==
    {[full |-> TRUE, parts |-> {}]} \cup
    {[full |-> FALSE, parts |-> ps] : ps \in SUBSET {Categories[i] : i \in DOMAIN Categories}}

\* _count_steps, lines 56-71
_count_steps(opts) ==
    IF opts.full THEN 1
    ELSE IF Cardinality(opts.parts) > 1 THEN Cardinality(opts.parts) ELSE 1

\* a BackupWorker as __init__ (lines 39-51) leaves it, started; emitted counts
\* the finished_signal.emit() calls of its run, handled the calls of
\* backup_finished it caused
NewBackup(opts) ==
    [pc |-> "run", opts |-> opts,
     todo |-> SelectSeq(Categories, LAMBDA c : c \in opts.parts),
     temp_dir |-> FALSE, steps |-> _count_steps(opts), current_step |-> 0,
     emitted |-> 0, handled |-> 0]

\* start_backup, lines 311-352, the clicked slot of btn_start.  The button is
\* disabled before the worker is constructed; BackupWorker.__init__ reads
\* main_window.settings (line 49), which the window of alpha 1.0.1 does not
\* have and the window of unknown ver.py has (line 127): without it the
\* AttributeError leaves the slot.
StartBackup ==
    /\ app = "running"
    /\ UiFree
    /\ btn_start
    /\ bk_clicks < MaxBackups
    /\ bk_clicks' = bk_clicks + 1
    /\ \E opts \in BackupChoices, dest_path, has_settings \in BOOLEAN :
          IF (~opts.full /\ opts.parts = {}) \/ ~dest_path
          THEN UNCHANGED <<btn_start, bk_progress, bkw, escaped, app>>
          ELSE /\ btn_start' = FALSE
               /\ bk_progress' = [visible |-> TRUE, value |-> 0]
               /\ IF has_settings
                  THEN /\ bkw' = Append(bkw, NewBackup(opts))
                       /\ UNCHANGED <<escaped, app>>
                  ELSE /\ escaped' = [fn |-> "BackupWorker.__init__",
                                      exc |-> "AttributeError"]
                       /\ app' = "crashed"
                       /\ UNCHANGED bkw
    /\ UNCHANGED <<pluginVars, console, ui_queue, installVars, settingsVars,
                   sweepVars, threadVars, toolVars, extVars, adb_checked,
                   device_list, selected, run_all_checkbox, adb_ops, last_call,
                   launched, blocked, monitor_labels, test_result>>

\* _step, lines 79-82: the percentage int(current_step / steps * 100)
StepPercent(current_step, steps) == (current_step * 100) \div steps

\* the except clauses of run, lines 228-232, and what they log
BackupErrorLogs(q, exc) ==
    IF Catches({"CalledProcessError"}, exc)
    THEN Emit(Emit(q, LogEvent("backup_error", 0)), LogEvent("backup_output", 0))
    ELSE IF Catches({"Exception"}, exc)
    THEN Emit(q, LogEvent("backup_exception", 0))
    ELSE q

\* the finally clause of run, lines 233-246: the temporary folder is removed
\* when it exists (rmtree may fail, which is logged), then finished_signal
Finally(q, w, temp_dir, rm_ok) ==
    Emit(IF temp_dir
         THEN Emit(q, LogEvent(IF rm_ok THEN "backup_cleanup"
                               ELSE "backup_cleanup_failed", 0))
         ELSE q,
         BackupFinishedEvent(w))

\* what a step of a BackupWorker leaves alone
BackupFrame ==
    UNCHANGED <<pluginVars, console, app, installVars, settingsVars, adbVars,
                sweepVars, threadVars, toolVars, extVars, btn_start,
                bk_progress, bk_clicks>>

\* run, lines 94-111: the full backup, one `adb backup -all` without timeout.
\* When it succeeds, finished_signal is emitted before the return and again
\* by the finally clause.
BackupFull(w) ==
    /\ app = "running"
    /\ bkw[w].pc = "run"
    /\ bkw[w].opts.full
    /\ \E beh \in Behaviours :
          LET r == subprocess_run({}, TRUE, beh)
              q0 == Emit(ui_queue, LogEvent("backup_full", 0))
          IN  IF r.kind = "returned" THEN
                  /\ ui_queue' =
                        Finally(Emit(Emit(Emit(q0, LogEvent("backup_full_saved", 0)),
                                          BackupProgressEvent(StepPercent(1, bkw[w].steps))),
                                     BackupFinishedEvent(w)),
                                w, FALSE, TRUE)
                  /\ bkw' = [bkw EXCEPT ![w].pc = "done", ![w].current_step = 1,
                                        ![w].emitted = @ + 2]
              ELSE IF r.kind = "raised" THEN
                  /\ ui_queue' = Finally(BackupErrorLogs(q0, r.exc), w, FALSE, TRUE)
                  /\ bkw' = [bkw EXCEPT ![w].pc = "done", ![w].emitted = @ + 1]
              ELSE
                  /\ ui_queue' = q0
                  /\ bkw' = [bkw EXCEPT ![w].pc = "blocked"]
    /\ BackupFrame

\* run, line 116: temp_dir.mkdir, which may raise OSError
BackupMkdir(w) ==
    /\ app = "running"
    /\ bkw[w].pc = "run"
    /\ ~bkw[w].opts.full
    /\ \/ /\ bkw' = [bkw EXCEPT ![w].pc = "steps", ![w].temp_dir = TRUE]
          /\ UNCHANGED ui_queue
       \/ /\ ui_queue' = Finally(BackupErrorLogs(ui_queue, "OSError"), w, FALSE, TRUE)
          /\ bkw' = [bkw EXCEPT ![w].pc = "done", ![w].emitted = @ + 1]
    /\ BackupFrame

\* run, lines 121-211: one checked category, its adb calls (check=True, no
\* timeout) behaving as beh at the first call that does not exit with 0
BackupStep(w) ==
    /\ app = "running"
    /\ bkw[w].pc = "steps"
    /\ bkw[w].todo # << >>
    /\ \E beh \in Behaviours, rm_ok \in BOOLEAN :
          LET r == subprocess_run({}, TRUE, beh)
              c == Head(bkw[w].todo)
              q0 == Emit(ui_queue, LogEvent("backup_copy", c))
          IN  IF r.kind = "returned" THEN
                  /\ rm_ok
                  /\ ui_queue' =
                        Emit(Emit(q0, LogEvent("backup_copied", c)),
                             BackupProgressEvent(
                                StepPercent(bkw[w].current_step + 1, bkw[w].steps)))
                  /\ bkw' = [bkw EXCEPT ![w].todo = Tail(@),
                                        ![w].current_step = @ + 1]
              ELSE IF r.kind = "raised" THEN
                  /\ ui_queue' = Finally(BackupErrorLogs(q0, r.exc), w, TRUE, rm_ok)
                  /\ bkw' = [bkw EXCEPT ![w].pc = "done", ![w].temp_dir = ~rm_ok,
                                        ![w].emitted = @ + 1]
              ELSE
                  /\ rm_ok
                  /\ ui_queue' = q0
                  /\ bkw' = [bkw EXCEPT ![w].pc = "blocked"]
    /\ BackupFrame

\* run, lines 216-226: the archive, which may fail with OSError, and the
\* finally clause
BackupZip(w) ==
    /\ app = "running"
    /\ bkw[w].pc = "steps"
    /\ bkw[w].todo = << >>
    /\ \E zip_ok, rm_ok \in BOOLEAN :
          LET q0 == Emit(ui_queue, LogEvent("backup_zip", 0))
          IN  /\ ui_queue' =
                    Finally(IF zip_ok THEN Emit(q0, LogEvent("backup_archive", 0))
                            ELSE BackupErrorLogs(q0, "OSError"),
                            w, TRUE, rm_ok)
              /\ bkw' = [bkw EXCEPT ![w].pc = "done", ![w].temp_dir = ~rm_ok,
                                    ![w].emitted = @ + 1]
    /\ BackupFrame

BackupRun ==
    \E w \in DOMAIN bkw :
       BackupFull(w) \/ BackupMkdir(w) \/ BackupStep(w) \/ BackupZip(w)

\* register, lines 300-303: the button is enabled, the bar hidden
InitBackup ==
    /\ btn_start = TRUE
    /\ bk_progress = [visible |-> FALSE, value |-> 0]
    /\ bkw = << >>
    /\ bk_clicks = 0

NextBackup == StartBackup \/ BackupRun \/ DeliverSignal

(***************************************************************************)
(* Plugin viewer (folder viewer).  A path is the sequence of its           *)
(* components: << >> is "/", <<"sdcard">> is "/sdcard".                    *)
(***************************************************************************)
\* what `ls -p` may list in a folder, in the order items.sort leaves them
\* (line 217): folders first, then files, each by lower-case name
DirEntries ==
    <<[name |-> "DCIM", is_dir |-> TRUE], [name |-> "Music", is_dir |-> TRUE],
      [name |-> "notes.txt", is_dir |-> FALSE]>>

DirListings == SUBSET {DirEntries[i] : i \in DOMAIN DirEntries}

\* _run_adb, lines 24-38: TRUE when it returns the output of the command,
\* FALSE when it returns "" (exit code not 0, or any exception, the timeout
\* of 5 seconds among them)
_run_adb(beh) ==
    LET r == subprocess_run({5}, FALSE, beh)
    IN  r.kind = "returned" /\ r.zero

\* update_file_list, lines 183-267, for the folder path with history behind
\* it: adb behaves as beh and lists listing.  Without output the function
\* returns at line 198, before the path field and the Back button are set.
update_file_list(path, history, beh, listing) ==
    IF _run_adb(beh) /\ listing # {}
    THEN /\ list_files' = SelectSeq(DirEntries, LAMBDA e : e \in listing)
         /\ edit_path' = path
         /\ btn_back' = (Len(history) > 0)
         /\ status_bar' = "loaded"
         /\ console' = log_message(console, "viewer_loaded", 0)
    ELSE /\ list_files' = << >>
         /\ status_bar' = "failed"
         /\ console' = log_message(console, "viewer_failed", 0)
         /\ UNCHANGED <<edit_path, btn_back>>

\* what a handler of the viewer leaves alone
ViewerFrame ==
    UNCHANGED <<backupVars, pluginVars, app, ui_queue, installVars,
                settingsVars, adbVars, sweepVars, threadVars, toolVars,
                batteryVars>>

ViewerReady ==
    /\ app = "running"
    /\ UiFree
    /\ nav_steps < MaxNav
    /\ nav_steps' = nav_steps + 1

\* btn_refresh.clicked and the single-shot timer of register (line 409)
Refresh_clicked ==
    /\ ViewerReady
    /\ \E beh \in Behaviours, listing \in DirListings :
          update_file_list(current_path, path_history, beh, listing)
    /\ UNCHANGED <<current_path, path_history>>
    /\ ViewerFrame

\* on_item_double_clicked, lines 269-292, on a folder of the list
on_item_double_clicked ==
    /\ ViewerReady
    /\ Len(current_path) < MaxDepth
    /\ \E i \in DOMAIN list_files :
          /\ list_files[i].is_dir
          /\ path_history' = Append(path_history, current_path)
          /\ current_path' = Append(current_path, list_files[i].name)
          /\ \E beh \in Behaviours, listing \in DirListings :
                update_file_list(current_path', path_history', beh, listing)
    /\ ViewerFrame

\* os.path.dirname of a path that is not "/"
dirname(path) == SubSeq(path, 1, Len(path) - 1)

\* go_up, lines 318-334
go_up ==
    /\ ViewerReady
    /\ current_path # << >>
    /\ path_history' = Append(path_history, current_path)
    /\ current_path' = IF Len(current_path) = 1 THEN << >>
                       ELSE dirname(current_path)
    /\ \E beh \in Behaviours, listing \in DirListings :
          update_file_list(current_path', path_history', beh, listing)
    /\ ViewerFrame

\* go_back, lines 336-345
go_back ==
    /\ ViewerReady
    /\ btn_back
    /\ path_history # << >>
    /\ current_path' = path_history[Len(path_history)]
    /\ path_history' = SubSeq(path_history, 1, Len(path_history) - 1)
    /\ \E beh \in Behaviours, listing \in DirListings :
          update_file_list(current_path', path_history', beh, listing)
    /\ ViewerFrame

\* on_path_edited, lines 355-367: Return in the path field, which is
\* read-only (line 67) and so holds what the program wrote into it
on_path_edited ==
    /\ ViewerReady
    /\ edit_path # current_path
    /\ \E found \in Behaviours :
          IF _run_adb(found)
          THEN /\ current_path' = edit_path
               /\ \E beh \in Behaviours, listing \in DirListings :
                     update_file_list(current_path', path_history, beh, listing)
          ELSE /\ edit_path' = current_path
               /\ UNCHANGED <<current_path, btn_back, list_files, status_bar,
                              console>>
    /\ UNCHANGED path_history
    /\ ViewerFrame

\* register, lines 55-68 and 138-139
InitViewer ==
    /\ current_path = <<"sdcard">>
    /\ path_history = << >>
    /\ edit_path = <<"sdcard">>
    /\ btn_back = FALSE
    /\ list_files = << >>
    /\ status_bar = "ready"
    /\ nav_steps = 0

NextViewer ==
    Refresh_clicked \/ on_item_double_clicked \/ go_up \/ go_back
    \/ on_path_edited

Init ==
    /\ console = EmptyBag
    /\ app = "running"
    /\ ui_queue = << >>
    /\ InitPlugins
    /\ InitInstall
    /\ InitSettings
    /\ InitAdb
    /\ InitSweep
    /\ InitThreads
    /\ InitScript
    /\ InitKeys
    /\ InitRom
    /\ InitBattery
    /\ InitBackup
    /\ InitViewer

NextPlugins == LoadPluginsBegin \/ LoadPluginsStep \/ LoadPluginsEnd

SpecPlugins == Init /\ [][NextPlugins]_vars

SpecInstall == Init /\ [][NextInstall]_vars

\* the worker thread keeps running and the event loop keeps delivering
InstallWorker ==
    \/ InstallBegin
    \/ InstallFor
    \/ InstallCheckStop
    \/ InstallRun
    \/ InstallSummary
    \/ InstallDialog

SpecInstallFair ==
    SpecInstall /\ WF_vars(InstallWorker) /\ WF_vars(DeliverSignal)

\* a mass installation and a sweep side by side, in the behaviours in which
\* nothing fails: adb answers every call, no application crashes, no file
\* fails to install, at most one package is listed and the event loop
\* delivers every signal before the next one is emitted
Calm ==
    /\ app = "running"
    /\ blocked = {}
    /\ escaped = NoEscape
    /\ Len(ui_queue) <= 1
    /\ w_failed = 0
    /\ crashed_apps = << >>
    /\ Len(packages) <= 1

NextProgress ==
    \/ SelectApkFolder /\ Calm'
    \/ StartMassInstallation /\ Calm'
    \/ InstallWorker /\ Calm'
    \/ DeliverSignal /\ Calm'
    \/ GetUserPackages /\ Calm'
    \/ StartAppTesting /\ Calm'
    \/ SweepStep /\ Calm'

SpecProgress == Init /\ [][NextProgress]_vars

SpecSettings == Init /\ [][NextSettings]_vars

SpecAdb == Init /\ [][NextAdb]_vars

SpecSweep == Init /\ [][NextSweep]_vars

SpecScript == Init /\ [][NextScript]_vars

SpecKeys == Init /\ [][NextKeys]_vars

SpecRom == Init /\ [][NextRom]_vars

SpecBattery == Init /\ [][NextBattery]_vars

SpecBackup == Init /\ [][NextBackup]_vars

SpecViewer == Init /\ [][NextViewer]_vars

\* the worker thread keeps running and the event loop keeps delivering
SpecBackupFair == SpecBackup /\ WF_vars(BackupRun) /\ WF_vars(DeliverSignal)

\* the handlers that start and stop the long operations, the worker threads
\* not yet scheduled
NextStart ==
    \/ SelectApkFolder
    \/ StartMassInstallation
    \/ StopMassInstallation
    \/ GetUserPackages
    \/ StartAppTesting
    \/ StopAppTesting

SpecStart == Init /\ [][NextStart]_vars

(***************************************************************************)
(* Claims about the plugin loader (checked under SpecPlugins).             *)
(***************************************************************************)
Range(q) == {q[k] : k \in 1..Len(q)}

Count(q, P(_)) == Cardinality({k \in 1..Len(q) : P(q[k])})

\* the number of console lines written for directory entry i
LinesFor(i) ==
    LET ls == {m \in BagToSet(console) : m.file = i}
        RECURSIVE Sum(_)
        Sum(S) == IF S = {} THEN 0
                  ELSE LET m == CHOOSE x \in S : TRUE
                       IN  CopiesIn(m, console) + Sum(S \ {m})
    IN  Sum(ls)

Entries == 1..Len(lp_files)

\* entry i raises while it is imported or while its register runs
Failing(i) ==
    /\ lp_files[i].py
    /\ \/ lp_files[i].imp # "ok"
       \/ lp_files[i].hasreg /\ lp_files[i].reg # "ok"

\* entry i is a .py file whose module imports and exposes register
Exposes(i) == lp_files[i].py /\ lp_files[i].imp = "ok" /\ lp_files[i].hasreg

\* C1: an exception raised by a plugin during import or during register never
\* leaves load_plugins, and when load_plugins has returned every .py entry of
\* the directory has been imported and every one that exposes register has
\* been registered, whatever the entries before it did.
C1_BadPluginDoesNotHaltLoading ==
    /\ lp_pc # "raised"
    /\ lp_pc = "done" =>
          \A i \in Entries :
             /\ lp_files[i].py => i \in Range(exec_calls)
             /\ Exposes(i) => \E c \in Range(reg_calls) : c.file = i

\* C1 witness: loading is over, an entry raised, and a later entry was
\* imported and registered.
C1_Witness ==
    /\ lp_pc = "done"
    /\ \E i, j \in Entries :
          /\ i < j
          /\ Failing(i)
          /\ Exposes(j)
          /\ \E c \in Range(reg_calls) : c.file = j

C3_RegisterCalledOnceWithMainWindow ==
    lp_pc = "done" =>
       \A i \in Entries :
          /\ Exposes(i) =>
                /\ Count(reg_calls, LAMBDA c : c.file = i) = 1
                /\ \A c \in Range(reg_calls) :
                      c.file = i => c.args = <<MainWindow>>
          /\ ~Exposes(i) => Count(reg_calls, LAMBDA c : c.file = i) = 0
          /\ (lp_files[i].py /\ lp_files[i].imp = "ok" /\ ~lp_files[i].hasreg)
                => Count(exec_calls, LAMBDA e : e = i) = 1

\* C3 witness: loading is over with a registered plugin and an imported
\* module that has no register.
C3_Witness ==
    /\ lp_pc = "done"
    /\ \E i, j \in Entries :
          /\ Exposes(i)
          /\ Count(reg_calls, LAMBDA c : c.file = i) = 1
          /\ lp_files[j].py /\ lp_files[j].imp = "ok" /\ ~lp_files[j].hasreg
          /\ j \in Range(exec_calls)

(***************************************************************************)
(* Claims about the mass-install report (checked under SpecInstall).       *)
(***************************************************************************)
StatusCount(r, st) == Count(r.entries, LAMBDA e : e.status = st)

\* C4 as claimed: in every report, success is the number of entries with
\* status "success" and failed is the number of entries with status "failed".
C4_Original ==
    \A r \in Range(reports) :
       /\ r.success = StatusCount(r, "success")
       /\ r.failed = StatusCount(r, "failed")

\* C4 as amended: in every report, success is the number of entries with
\* status "success" and failed is the number of entries with any other status
\* ("failed", "timeout" or "exception").
C4_CountsMatchStatuses ==
    \A r \in Range(reports) :
       /\ r.success = StatusCount(r, "success")
       /\ r.failed = StatusCount(r, "failed") + StatusCount(r, "timeout")
                       + StatusCount(r, "exception")
       /\ \A e \in Range(r.entries) :
             e.status \in {"success", "failed", "timeout", "exception"}

\* C4 witness: a report with a successful entry, a failed one and one that
\* timed out or raised.
C4_Witness ==
    \E r \in Range(reports) :
       /\ StatusCount(r, "success") > 0
       /\ StatusCount(r, "timeout") + StatusCount(r, "exception") > 0

\* C5: when the worker has built its report after processing every file of
\* the list its loop was given (N files, none skipped by a stop), the report
\* has total = N and success + failed = total.
C5_CompleteRunTotals ==
    (w_pc = "dialog" /\ Len(w_entries) = Len(w_iter)) =>
       LET r == reports[Len(reports)]
       IN  /\ r.total = Len(w_iter)
           /\ r.success + r.failed = r.total

(***************************************************************************)
(* C6: save_settings followed by load_settings reproduces exactly the      *)
(* settings object that was saved, nested hotkeys included: a window that  *)
(* has just loaded a file written completely by save_settings, and not     *)
(* touched since, holds the dictionary that save_settings wrote.           *)
(***************************************************************************)
C6_SaveThenLoadReproducesSettings ==
    st_loaded = "saved" => settings = saved_settings

\* a second session has loaded what the first one saved: dark theme on, a
\* non-default hotkeys dictionary and a key the defaults do not have
C6_Witness ==
    /\ st_loaded = "saved"
    /\ settings["theme_dark"] = PyBool(TRUE)
    /\ settings["hotkeys"] # PyDict(DefaultHotkeys)
    /\ "window_state" \in DOMAIN settings

\* load_settings has just completed on a file holding a JSON object
LoadedObject == st_loaded \in {"saved", "external"}

FileKeys == DOMAIN config_file.members

(***************************************************************************)
(* C7 as stated: after load_settings on an existing settings file the      *)
(* in-memory settings equal the JSON object in the file.                   *)
(***************************************************************************)
C7_Original ==
    LoadedObject => settings = json_load(config_file.members)

(***************************************************************************)
(* C7, amended: after load_settings on an existing settings file holding a *)
(* JSON object, the in-memory settings are the defaults updated with the   *)
(* file: each key of the file has the file's value (a nested object        *)
(* replaces the default as a whole), each default key the file lacks keeps *)
(* its default, and there are no other keys.                               *)
(***************************************************************************)
C7_FileUpdatesDefaults ==
    LoadedObject =>
        /\ DOMAIN settings = DOMAIN DefaultSettings \cup FileKeys
        /\ \A k \in FileKeys : settings[k] = PyOf(config_file.members[k])
        /\ \A k \in DOMAIN DefaultSettings \ FileKeys :
              settings[k] = DefaultSettings[k]

\* a file that overrides one default, brings a nested object and an unknown
\* key, and lacks theme_dark has been loaded
C7_Witness ==
    /\ st_loaded = "external"
    /\ "theme_dark" \notin FileKeys
    /\ {"adb_path", "hotkeys", "window_state"} \subseteq FileKeys
    /\ settings["adb_path"] = PyStr("/opt/adb")
    /\ settings["theme_dark"] = PyBool(FALSE)
    /\ settings["hotkeys"].d = [h \in {"RefreshDevices"} |-> PyStr("F6")]

\* the most recent command-issuing call was run_adb_command
RanAdbCommand == last_call.fn = "run_adb_command"

(***************************************************************************)
(* C8: run_adb_command launches exactly one external process per target:   *)
(* one for each selected device, in order, when run-on-all is checked;     *)
(* exactly one, for the first selected device, when it is not checked; and *)
(* exactly one without a device serial for a global command.               *)
(***************************************************************************)
C8_OneProcessPerTarget ==
    RanAdbCommand =>
        LET sel == last_call.selected
        IN  /\ (last_call.device_specific /\ sel # << >> /\ last_call.run_all) =>
                  /\ Len(launched) = Len(sel)
                  /\ \A i \in DOMAIN sel : launched[i].serial = {sel[i]}
            /\ (last_call.device_specific /\ sel # << >> /\ ~last_call.run_all) =>
                  /\ Len(launched) = 1
                  /\ launched[1].serial = {sel[1]}
            /\ ~last_call.device_specific =>
                  /\ Len(launched) = 1
                  /\ launched[1].serial = {}

\* a command has run on two selected devices with run-on-all checked, and one
\* of the two processes timed out
C8_Witness ==
    /\ RanAdbCommand
    /\ last_call.device_specific
    /\ last_call.run_all
    /\ Len(last_call.selected) = 2
    /\ Len(launched) = 2
    /\ BagIn(LogLine("command_timeout", 0), console)

(***************************************************************************)
(* C9: a timeout or any other exception raised while launching or waiting  *)
(* for an external process is caught at the call site and logged; no       *)
(* exception leaves the function that issued the command.                  *)
(***************************************************************************)
C9_NoExceptionLeavesCallSite == escaped = NoEscape

(***************************************************************************)
(* C10: every external process invocation is made with a timeout, and no   *)
(* thread waits forever for a process that never exits.                    *)
(***************************************************************************)
C10_EveryInvocationHasTimeout ==
    /\ \A i \in DOMAIN launched : launched[i].timeout # {}
    /\ blocked = {}

(***************************************************************************)
(* C11: in a batch loop a failed command, a timeout or an unexpected       *)
(* exception on one item does not end the loop: the batch uninstall of the *)
(* crashed applications tries every item it was started with.              *)
(***************************************************************************)
C11_EveryItemAttempted == del_call.tried = del_call.items

(***************************************************************************)
(* C12: once the stop flag of a batch operation has been set, the worker   *)
(* loop launches no further external process for that batch.               *)
(***************************************************************************)
C12_NoLaunchAfterStop ==
    /\ \A w \in DOMAIN tw : tw[w].since_stop = 0
    /\ w_since_stop = 0

(***************************************************************************)
(* C13: code running on a worker thread never calls a widget method or     *)
(* opens a dialog itself.                                                  *)
(***************************************************************************)
C13_WorkersNeverTouchWidgets == worker_widget_calls = {}

(***************************************************************************)
(* C14: a worker thread never writes to the shared in-memory state (device *)
(* list, package list, crashed-apps dictionary) directly.                  *)
(***************************************************************************)
C14_WorkersNeverWriteSharedState == worker_writes = {}

(***************************************************************************)
(* C17: after every refresh the package list holds exactly the names that  *)
(* refresh returned, also when it returned nothing.                        *)
(***************************************************************************)
C17_ListsRebuiltOnRefresh == pkg_refresh.done => packages = pkg_refresh.ids

\* the sweep of worker w is over: its finished_signal has been handled
SweepOver(w) ==
    /\ tw[w].pc = "done"
    /\ \A i \in DOMAIN ui_queue : ui_queue[i].sig # "test_finished"

(***************************************************************************)
(* C18: every bulk operation that finishes, whatever its outcome, is       *)
(* followed by one report: each sweep that is over has handed its report   *)
(* to save_report.                                                         *)
(***************************************************************************)
C18_ReportAfterEveryBulkOperation ==
    Cardinality({w \in DOMAIN tw : SweepOver(w)}) = Len(test_reports)

(***************************************************************************)
(* C15: a new worker thread of a long-running action is created only after *)
(* the previous one of that action has completed: no script worker was     *)
(* created while another script worker was alive.                          *)
(***************************************************************************)
C15_OneWorkerPerAction == \A s \in DOMAIN sw : sw[s].overlap = 0

\* a sweep has been started and its finished_signal not yet handled
SweepRunning ==
    \E w \in DOMAIN tw :
       tw[w].pc # "done" \/ \E i \in DOMAIN ui_queue : ui_queue[i].sig = "test_finished"

\* C16 as stated: while a long operation is running, no start of a long
\* operation that has its input is refused
C16_Original ==
    (install_in_progress \/ SweepRunning) =>
        /\ (apk_files # << >> => ~InstallRefused)
        /\ (packages # << >> => ~TestingRefused)

(***************************************************************************)
(* C16: starting a long operation is never refused because a long          *)
(* operation of another kind is running: a sweep does not keep a mass      *)
(* installation from starting, nor a mass installation a sweep.  A second  *)
(* mass installation is refused while one is in progress.                  *)
(***************************************************************************)
C16_OnlyOwnKindRefusesStart ==
    /\ (SweepRunning /\ ~install_in_progress /\ apk_files # << >>) =>
           (start_install_btn /\ ~InstallRefused)
    /\ (install_in_progress /\ packages # << >>) => ~TestingRefused
    /\ (install_in_progress /\ packages # << >> /\ ~SweepRunning) => start_test_btn
    /\ install_in_progress => (InstallRefused /\ ~start_install_btn)

C16_Witness == install_in_progress /\ testing /\ SweepRunning

\* the texts the claim names
Text256 == <<"2", "5", "6">>

TextMinus1 == <<"-", "1">>

TextAbc == <<"a", "b", "c">>

(***************************************************************************)
(* C19: the keycode validator accepts every decimal string from "0"        *)
(* through "255" and rejects "256", "-1" and "abc": with such a text in    *)
(* the field, the Send button is enabled in the first case and disabled in *)
(* the second.                                                             *)
(***************************************************************************)
C19_KeycodeValidator ==
    /\ (\E n \in 0..255 : edit_custom = str(n)) => btn_custom
    /\ edit_custom \in {Text256, TextMinus1, TextAbc} => ~btn_custom

C19_Witness == edit_custom = <<"2", "5", "5">> /\ btn_custom

(***************************************************************************)
(* C20: the ROM-usage colour is rgb(0,255,0) for 0 percent, rgb(255,255,0) *)
(* for 50 percent and rgb(255,0,0) for 100 percent.                        *)
(***************************************************************************)
C20_ColourAtZeroFiftyHundred ==
    /\ rom_info = 0 =>
          rom_style = <<"r","g","b","(","0",",","2","5","5",",","0",")">>
    /\ rom_info = 50 =>
          rom_style = <<"r","g","b","(","2","5","5",",","2","5","5",",","0",")">>
    /\ rom_info = 100 =>
          rom_style = <<"r","g","b","(","2","5","5",",","0",",","0",")">>

C20_Witness ==
    /\ rom_info = 100
    /\ rom_style = <<"r","g","b","(","2","5","5",",","0",",","0",")">>

\* the output holds the literal line and no other line with "level:"
LevelIs76(out) ==
    /\ \E i \in DOMAIN out : out[i] = LevelLine
    /\ \A i \in DOMAIN out : Contains(out[i], <<"l", "e", "v", "e", "l", ":">>) => out[i] = LevelLine

(***************************************************************************)
(* C21: from a dumpsys battery output whose level line is the literal      *)
(* `level: 76` the battery parsers extract 76: the monitoring tab shows    *)
(* the text "76" and the battery dock the number 76.                       *)
(***************************************************************************)
C21_BatteryLevelParsed ==
    /\ LevelIs76(bat_out) => battery_label = <<"7", "6">>
    /\ LevelIs76(batt_out) => batt_widgets.level = 76

C21_Witness ==
    /\ LevelIs76(bat_out)
    /\ LevelIs76(batt_out)
    /\ Len(bat_out) > 1
    /\ battery_label = <<"7", "6">>
    /\ batt_widgets.level = 76

\* a mass installation has ended: the flag is reset and the buttons are back
InstallEnded == ~install_in_progress /\ start_install_btn /\ ~stop_install_btn

(***************************************************************************)
(* C22: every mass installation that is started eventually ends with       *)
(* install_in_progress reset to false, the start button enabled and the    *)
(* stop button disabled.                                                   *)
(***************************************************************************)
C22_InstallEventuallyEnds == install_in_progress ~> InstallEnded

(***************************************************************************)
(* C23: in every mass-install report, total is the number of entries and   *)
(* is success + failed, also for a run that was stopped early.             *)
(***************************************************************************)
C23_TotalIsEntriesAndCounts ==
    \A k \in DOMAIN reports :
       /\ reports[k].total = Len(reports[k].entries)
       /\ reports[k].total = reports[k].success + reports[k].failed

\* package pkg was launched and checked by a sweep
Tested(pkg) ==
    \E w \in DOMAIN tw : \E j \in DOMAIN tw[w].tested : tw[w].tested[j] = pkg

(***************************************************************************)
(* C24: in the crash-testing report, every package with status "ok" was    *)
(* launched and checked during the sweep, and success counts only such     *)
(* packages; a package the stopped sweep never reached is not reported ok. *)
(***************************************************************************)
C24_OkEntriesWereTested ==
    \A k \in DOMAIN test_reports :
       LET r == test_reports[k].report
       IN  /\ \A e \in DOMAIN r.entries :
                 r.entries[e].status = "ok" => Tested(r.entries[e].package)
           /\ r.success = Cardinality({e \in DOMAIN r.entries :
                                          /\ r.entries[e].status = "ok"
                                          /\ Tested(r.entries[e].package)})

(***************************************************************************)
(* C25: while a mass installation is running, the install progress bar     *)
(* shows the number of APK files processed so far in that installation     *)
(* (the progress values are delivered in order, so the bar is never ahead  *)
(* of the worker), also when a crash-testing sweep runs at the same time.  *)
(***************************************************************************)
C25_BarFollowsInstallation ==
    (install_in_progress /\ w_pc \notin {"idle", "started"}) =>
        progress_bar.value <= w_i

(***************************************************************************)
(* C26: after delete_all_problematic_apps has finished, every package      *)
(* whose uninstall failed is still recorded in crashed_apps.               *)
(***************************************************************************)
C26_FailedUninstallsStayRecorded ==
    del_call.returned =>
        \A pkg \in del_call.failed :
           \E j \in DOMAIN crashed_apps : crashed_apps[j] = pkg

\* C27: every click on the start button of Extended Backups that disables the
\* button is eventually followed by the button being enabled again, also when
\* the BackupWorker cannot be constructed or its run ends with an error.
C27_ButtonEventuallyEnabled == (~btn_start) ~> btn_start

\* C28: every finished run of a BackupWorker has emitted finished_signal
\* exactly once, so that backup_finished runs at most once for it, for a full
\* backup as for a partial one.
C28_FinishedEmittedOnce ==
    \A w \in DOMAIN bkw :
       bkw[w].pc = "done" => bkw[w].emitted = 1 /\ bkw[w].handled <= 1

\* C29: after every navigation step in the folder viewer the path field shows
\* current_path and the Back button is enabled exactly when path_history is
\* not empty, also when listing the new folder returns no output.
C29_PathFieldAndBackButton ==
    /\ edit_path = current_path
    /\ btn_back <=> (path_history # << >>)

\* C30: a start-up that finds a settings file which is not JSON still
\* completes, with the default settings in effect (the failure being reported
\* as a log line).
C30_StartupSurvivesBadFile ==
    [][(st_phase = "off" /\ st_phase' # "off" /\ config_file.kind = "corrupt")
          => (st_phase' = "running" /\ settings' = DefaultSettings)]_vars

=============================================================================
